---- MODULE Spec2Model ----
(***************************************************************************)
(* A model of go-idol: the idol binary message format (package idol and    *)
(* package idolbin), the lexer and parser of package syntax, and the       *)
(* import handling of package compiler.                                    *)
(*                                                                         *)
(* Byte buffers are sequences of naturals below 256.  Go offsets are       *)
(* 0-based, so Go's s[a:b] is Slice(s, a, b).  A Go panic (a slice or      *)
(* index out of range) is the outcome "panic" of the operator that models  *)
(* the function.                                                           *)
(***************************************************************************)
EXTENDS Integers, Sequences, FiniteSets, TLC

VARIABLES
    phase,     \* which step of the scenario has been taken
    buf,       \* the byte buffer handed to the decoders
    origin,    \* how buf was made: a raw buffer, a text array layout, a builder
    accepted,  \* the outcome of validation: "none", "ok", "err", "panic"
    rd,        \* the last field read: library, tag, accessor, outcome
    bld,       \* the message builder driven by the encoder scenario
    lex,       \* the lexer scenario: input, Tokens state, tokens read so far
    prs,       \* the parser scenario: input and the result of Parse
    cmp        \* the compiler scenario: the SchemaSet and the results of Compile

vars == <<phase, buf, origin, accepted, rd, bld, lex, prs, cmp>>

----------------------------------------------------------------------------
(* Fixed-width integers.  A uint32 or uint64 is kept as two 16-bit halves   *)
(* so that values at and above 2^31 are exact: value = hi * 65536 + lo.     *)

W16 == 65536

Wide(n) == [hi |-> n \div W16, lo |-> n % W16]

WInt(a) == a.hi * W16 + a.lo

WAdd64(a, b) ==
    LET s == a.lo + b.lo
    IN  [hi |-> a.hi + b.hi + (s \div W16), lo |-> s % W16]

WAdd32(a, b) ==
    LET s == WAdd64(a, b)
    IN  [hi |-> s.hi % W16, lo |-> s.lo]

WLt(a, b) == a.hi < b.hi \/ (a.hi = b.hi /\ a.lo < b.lo)

WLe(a, b) == ~WLt(b, a)

\* x & 0xFFFFFFF8
WMaskPad(a) == [hi |-> a.hi % W16, lo |-> a.lo - (a.lo % 8)]

\* uint32(x) >> 3
WShr3(a) ==
    LET h == a.hi % W16
    IN  [hi |-> h \div 8, lo |-> (h % 8) * 8192 + (a.lo \div 8)]

\* uint32(x) << 3
WShl3(a) ==
    LET l == a.lo * 8
    IN  [hi |-> (a.hi * 8 + (l \div W16)) % W16, lo |-> l % W16]

Slice(s, a, b) == SubSeq(s, a + 1, b)

leUint16(b) == b[1] + 256 * b[2]

leUint32(b) == [hi |-> b[3] + 256 * b[4], lo |-> b[1] + 256 * b[2]]

leUint64(b) == <<leUint32(Slice(b, 0, 4)), leUint32(Slice(b, 4, 8))>>

PutUint16(v) == <<v % 256, v \div 256>>

PutUint32(w) == PutUint16(w.lo) \o PutUint16(w.hi)

Zeros(n) == [i \in 1..n |-> 0]

\* IndexByte(s, 0): the 0-based index of the first NUL, or -1
IndexNul(s) ==
    IF \E i \in 1..Len(s) : s[i] = 0
    THEN (CHOOSE i \in 1..Len(s) : s[i] = 0 /\ \A j \in 1..(i - 1) : s[j] # 0) - 1
    ELSE -1

\* 0x7FF00000
MaxMessageSize == [hi |-> 32752, lo |-> 0]

----------------------------------------------------------------------------
(* package idolbin: validation of an encoded message.                       *)

\* The padding bytes buf[from:to] of an indirect value: "panic" when the
\* slice is out of range, "err" when a padding byte is not zero.
checkPadding(b, from, to) ==
    IF WLt(Wide(Len(b)), to) \/ WLt(to, from) THEN "panic"
    ELSE IF \E i \in (WInt(from) + 1)..WInt(to) : b[i] # 0 THEN "err"
    ELSE "ok"

RECURSIVE validateThunksFrom(_, _, _, _, _)
validateThunksFrom(b, messageSize, thunkCount, tag, valueOff) ==
    IF tag > thunkCount
    THEN IF valueOff # messageSize THEN "err" ELSE "ok"
    ELSE
      LET thunk == Slice(b, tag * 8, tag * 8 + 8)
          flags == leUint16(Slice(thunk, 2, 4))
          valueSize == leUint32(Slice(thunk, 4, 8))
          paddedSize == WMaskPad(WAdd64(valueSize, Wide(7)))
          padding == IF WLt(valueSize, paddedSize)
                     THEN checkPadding(b, WAdd64(valueOff, valueSize),
                                          WAdd64(valueOff, paddedSize))
                     ELSE "ok"
          nextOff == WAdd64(valueOff, paddedSize)
          handles == leUint16(Slice(thunk, 0, 2))
      IN  IF (flags \div 32768) % 2 = 0
          THEN IF leUint64(thunk) = <<Wide(0), Wide(0)>>
               THEN validateThunksFrom(b, messageSize, thunkCount, tag + 1, valueOff)
               ELSE "err"
          ELSE IF flags % 16384 # 0 THEN "err"
          ELSE IF (flags \div 16384) % 2 = 1
          THEN IF padding # "ok" THEN padding
               ELSE IF WLt(messageSize, nextOff) THEN "err"
               ELSE validateThunksFrom(b, messageSize, thunkCount, tag + 1, nextOff)
          ELSE IF handles > 0 /\ handles # 1 THEN "err"
          ELSE IF handles > 0 /\ valueSize # [hi |-> 65535, lo |-> 65535] THEN "err"
          ELSE validateThunksFrom(b, messageSize, thunkCount, tag + 1, valueOff)

validateEncodedThunks(b, messageSize) ==
    LET thunkCount == leUint16(Slice(b, 6, 8))
        dataOff == Wide(8 + thunkCount * 8)
    IN  IF WLt(messageSize, dataOff) THEN "err"
        ELSE validateThunksFrom(b, messageSize, thunkCount, 1, dataOff)

\* The checks NewMessage and NewMessageDecoder make before the thunks.
headerOK(b) ==
    /\ Len(b) >= 8
    /\ Len(b) % 8 = 0
    /\ WLe(Wide(Len(b)), MaxMessageSize)
    /\ leUint32(Slice(b, 0, 4)) = Wide(Len(b))
    /\ leUint16(Slice(b, 4, 6)) = 0

NewMessage(b) ==
    IF ~headerOK(b) THEN "err"
    ELSE validateEncodedThunks(b, leUint32(Slice(b, 0, 4)))

----------------------------------------------------------------------------
(* Outcomes of an accessor: st is "ok", "err", "panic" or "nil".            *)

Ok(v) == [st |-> "ok", val |-> v]

Err == [st |-> "err", val |-> <<>>]

Panic == [st |-> "panic", val |-> <<>>]

\* s[from:to] with uint32 offsets: out of range is a panic
sliceU32(s, from, to) ==
    IF WLt(to, from) \/ WLt(Wide(Len(s)), to) THEN Panic
    ELSE Ok(Slice(s, WInt(from), WInt(to)))

WMul4(a) ==
    LET l == a.lo * 4
    IN  [hi |-> a.hi * 4 + (l \div W16), lo |-> l % W16]

WMul4U32(a) ==
    LET m == WMul4(a)
    IN  [hi |-> m.hi % W16, lo |-> m.lo]

----------------------------------------------------------------------------
(* package idol: the array views over an indirect value.                    *)

RECURSIVE dynArrayIterFrom(_, _, _, _, _, _)
dynArrayIterFrom(a, arrayLen, ii, sizeOff, valueOff, out) ==
    IF ~WLt(Wide(ii), arrayLen) THEN Ok(out)
    ELSE IF sizeOff + 4 > Len(a) THEN Panic
    ELSE
      LET size == leUint32(Slice(a, sizeOff, sizeOff + 4))
          value == sliceU32(a, valueOff, WAdd32(valueOff, size))
      IN  IF value.st # "ok" THEN Panic
          ELSE dynArrayIterFrom(a, arrayLen, ii + 1, sizeOff + 4,
                                WAdd32(valueOff, size), Append(out, value.val))

\* dynArray.iter: the values it yields, in order
dynArrayIter(a, align) ==
    IF Len(a) = 0 THEN Ok(<<>>)
    ELSE IF Len(a) < 4 THEN Panic
    ELSE
      LET arrayLen == leUint32(Slice(a, 0, 4))
          base == WAdd32(Wide(4), WMul4U32(arrayLen))
          valueOff == IF align /\ arrayLen.lo % 2 = 0
                      THEN WAdd32(base, Wide(4)) ELSE base
      IN  dynArrayIterFrom(a, arrayLen, 0, 4, valueOff, <<>>)

\* TextArray.Collect / TextArray.Iter: each value without its final NUL
TextArrayCollect(a) ==
    LET it == dynArrayIter(a, FALSE)
    IN  IF it.st # "ok" THEN it
        ELSE Ok([i \in 1..Len(it.val) |->
                   IF Len(it.val[i]) > 0
                   THEN SubSeq(it.val[i], 1, Len(it.val[i]) - 1)
                   ELSE <<>>])

\* MessageArray.Iter: the encoded messages, in order
MessageArrayCollect(a) == dynArrayIter(a, TRUE)

----------------------------------------------------------------------------
(* package idolbin: Message.Field and the accessors of MessageField.        *)

\* Message.Field: the thunk of the field, or "nil"
Field(b, tag) ==
    IF Len(b) = 0 \/ tag = 0 THEN "nil"
    ELSE IF tag > leUint16(Slice(b, 6, 8)) THEN "nil"
    ELSE "field"

fieldThunk(b, tag) == Slice(b, tag * 8, tag * 8 + 8)

\* the loop of getIndirect over the thunks before tag (uint32 arithmetic)
RECURSIVE indirectOffFrom(_, _, _, _)
indirectOffFrom(b, tag, ii, valueOff) ==
    IF ii >= tag THEN valueOff
    ELSE
      LET thunk == Slice(b, ii * 8, ii * 8 + 8)
          size == leUint32(Slice(thunk, 4, 8))
          paddedSize == WMaskPad(WAdd32(size, Wide(7)))
      IN  IF (thunk[4] \div 64) % 2 = 0
          THEN indirectOffFrom(b, tag, ii + 1, valueOff)
          ELSE indirectOffFrom(b, tag, ii + 1, WAdd32(valueOff, paddedSize))

getIndirect(b, tag) ==
    LET thunk == fieldThunk(b, tag)
        thunkCount == leUint16(Slice(b, 6, 8))
        valueOff == indirectOffFrom(b, tag, 1, Wide(8 + thunkCount * 8))
        valueSize == leUint32(Slice(thunk, 4, 8))
    IN  IF thunk[4] = 0 THEN Ok(<<>>)
        ELSE IF thunk[4] = 128 THEN Err
        ELSE sliceU32(b, valueOff, WAdd32(valueOff, valueSize))

MessageField_GetUint32(b, tag) ==
    LET thunk == fieldThunk(b, tag)
    IN  IF thunk[4] = 0 THEN Ok(Wide(0))
        ELSE IF thunk[4] = 128 THEN Ok(leUint32(Slice(thunk, 4, 8)))
        ELSE Err

MessageField_GetUint8Array(b, tag) == getIndirect(b, tag)

MessageField_GetText(b, tag) ==
    LET value == getIndirect(b, tag)
        nul == IndexNul(value.val)
    IN  IF value.st # "ok" \/ Len(value.val) = 0 THEN value
        ELSE IF nul = -1 THEN Err
        ELSE IF nul # Len(value.val) - 1 THEN Err
        ELSE Ok(Slice(value.val, 0, nul))

RECURSIVE validateTextArrayFrom(_, _, _, _, _)
validateTextArrayFrom(a, arrayLen, ii, sizeOff, valueOff) ==
    IF ~WLt(Wide(ii), arrayLen)
    THEN IF valueOff # Wide(Len(a)) THEN "err" ELSE "ok"
    ELSE
      LET valueSize == leUint32(Slice(a, sizeOff, sizeOff + 4))
          valueEnd == WAdd64(valueOff, valueSize)
          value == Slice(a, WInt(valueOff), WInt(valueEnd))
          nul == IndexNul(value)
      IN  IF valueSize = Wide(0) THEN "err"
          ELSE IF WLt(Wide(Len(a)), valueEnd) THEN "err"
          ELSE IF nul = -1 THEN "err"
          ELSE IF nul # Len(value) - 1 THEN "err"
          ELSE validateTextArrayFrom(a, arrayLen, ii + 1, sizeOff + 4, valueEnd)

validateTextArray(a) ==
    IF Len(a) = 0 THEN "ok"
    ELSE IF Len(a) < 4 THEN "err"
    ELSE
      LET arrayLen == leUint32(Slice(a, 0, 4))
          base == WAdd64(Wide(4), WMul4(arrayLen))
          valueOff == IF arrayLen.lo % 2 = 0 THEN WAdd64(base, Wide(4)) ELSE base
      IN  IF WLt(Wide(Len(a)), valueOff) THEN "err"
          ELSE validateTextArrayFrom(a, arrayLen, 0, 4, valueOff)

\* GetTextArray, followed by reading the returned view with Collect
MessageField_GetTextArray(b, tag) ==
    LET value == getIndirect(b, tag)
    IN  IF value.st # "ok" THEN value
        ELSE IF Len(value.val) = 0 THEN Ok(<<>>)
        ELSE IF validateTextArray(value.val) # "ok" THEN Err
        ELSE TextArrayCollect(value.val)

RECURSIVE validateMessageArrayFrom(_, _, _, _, _)
validateMessageArrayFrom(a, arrayLen, ii, sizeOff, valueOff) ==
    IF ~WLt(Wide(ii), arrayLen)
    THEN IF valueOff # Wide(Len(a)) THEN "err" ELSE "ok"
    ELSE
      LET valueSize == leUint32(Slice(a, sizeOff, sizeOff + 4))
          valueEnd == WAdd64(valueOff, valueSize)
          inner == NewMessage(Slice(a, WInt(valueOff), WInt(valueEnd)))
      IN  IF valueSize = Wide(0) THEN "err"
          ELSE IF valueSize.lo % 8 # 0 THEN "err"
          ELSE IF WLt(Wide(Len(a)), valueEnd) THEN "err"
          ELSE IF inner # "ok" THEN inner
          ELSE validateMessageArrayFrom(a, arrayLen, ii + 1, sizeOff + 4, valueEnd)

validateMessageArray(a) ==
    IF Len(a) = 0 THEN "ok"
    ELSE IF Len(a) < 4 THEN "err"
    ELSE
      LET arrayLen == leUint32(Slice(a, 0, 4))
          base == WAdd64(Wide(4), WMul4(arrayLen))
          valueOff == IF arrayLen.lo % 2 = 0 THEN WAdd64(base, Wide(4)) ELSE base
      IN  IF WLt(Wide(Len(a)), valueOff) THEN "err"
          ELSE validateMessageArrayFrom(a, arrayLen, 0, 4, valueOff)

\* GetMessageArray, followed by reading the returned view with Collect
MessageField_GetMessageArray(b, tag) ==
    LET value == getIndirect(b, tag)
        valid == validateMessageArray(value.val)
    IN  IF value.st # "ok" THEN value
        ELSE IF valid = "panic" THEN Panic
        ELSE IF valid # "ok" THEN Err
        ELSE MessageArrayCollect(value.val)

----------------------------------------------------------------------------
(* package idol: NewMessageDecoder, decodeThunks (which rewrites the thunk  *)
(* of every indirect field in place) and the getters of DecodedMessage.     *)

ReplaceAt(b, off, bytes) ==
    SubSeq(b, 1, off) \o bytes \o SubSeq(b, off + Len(bytes) + 1, Len(b))

\* (uint32(valueOff) >> 3) | (uint32(flags) << 16), for flags = 0xC000
thunkOffset(valueOff, flags) ==
    LET shifted == WShr3(valueOff)
    IN  [hi |-> shifted.hi + flags, lo |-> shifted.lo]

RECURSIVE decodeThunksFrom(_, _, _, _, _)
decodeThunksFrom(b, messageSize, thunkCount, tag, valueOff) ==
    IF tag > thunkCount
    THEN [res |-> IF valueOff # messageSize THEN "err" ELSE "ok", buf |-> b]
    ELSE
      LET thunk == Slice(b, tag * 8, tag * 8 + 8)
          flags == leUint16(Slice(thunk, 2, 4))
          valueSize == leUint32(Slice(thunk, 4, 8))
          paddedSize == WMaskPad(WAdd64(valueSize, Wide(7)))
          padding == IF WLt(valueSize, paddedSize)
                     THEN checkPadding(b, WAdd64(valueOff, valueSize),
                                          WAdd64(valueOff, paddedSize))
                     ELSE "ok"
          rewritten == ReplaceAt(b, tag * 8, PutUint32(thunkOffset(valueOff, flags)))
          nextOff == WAdd64(valueOff, paddedSize)
          handles == leUint16(Slice(thunk, 0, 2))
      IN  IF (flags \div 32768) % 2 = 0
          THEN IF leUint64(thunk) = <<Wide(0), Wide(0)>>
               THEN decodeThunksFrom(b, messageSize, thunkCount, tag + 1, valueOff)
               ELSE [res |-> "err", buf |-> b]
          ELSE IF flags % 16384 # 0 THEN [res |-> "err", buf |-> b]
          ELSE IF (flags \div 16384) % 2 = 1
          THEN IF padding # "ok" THEN [res |-> padding, buf |-> b]
               ELSE IF WLt(messageSize, nextOff) THEN [res |-> "err", buf |-> rewritten]
               ELSE decodeThunksFrom(rewritten, messageSize, thunkCount, tag + 1, nextOff)
          ELSE IF handles > 0 /\ handles # 1 THEN [res |-> "err", buf |-> b]
          ELSE IF handles > 0 /\ valueSize # [hi |-> 65535, lo |-> 65535]
          THEN [res |-> "err", buf |-> b]
          ELSE IF handles > 0 THEN [res |-> "panic", buf |-> b]
          ELSE decodeThunksFrom(b, messageSize, thunkCount, tag + 1, valueOff)

decodeThunks(b, messageSize) ==
    LET thunkCount == leUint16(Slice(b, 6, 8))
        dataOff == Wide(8 + thunkCount * 8)
    IN  IF WLt(messageSize, dataOff) THEN [res |-> "err", buf |-> b]
        ELSE decodeThunksFrom(b, messageSize, thunkCount, 1, dataOff)

NewMessageDecoder(b) ==
    IF ~headerOK(b) THEN [res |-> "err", buf |-> b]
    ELSE decodeThunks(b, leUint32(Slice(b, 0, 4)))

DecodedMessage_Has(b, tag) ==
    IF Len(b) = 0 THEN FALSE
    ELSE IF tag > leUint16(Slice(b, 6, 8)) THEN FALSE
    ELSE b[tag * 8 + 3 + 1] # 0

DecodedMessage_GetIndirect(b, tag) ==
    LET thunkOff == tag * 8
        valueSize == leUint32(Slice(b, thunkOff + 4, thunkOff + 8))
        stored == leUint32(Slice(b, thunkOff, thunkOff + 4))
        valueOff == WShl3([hi |-> stored.hi % 4096, lo |-> stored.lo])
    IN  IF ~DecodedMessage_Has(b, tag) THEN Ok(<<>>)
        ELSE IF valueSize = Wide(0) THEN Ok(<<>>)
        ELSE sliceU32(b, valueOff, WAdd32(valueOff, valueSize))

DecodedMessage_GetUint32(b, tag) ==
    IF ~DecodedMessage_Has(b, tag) THEN Ok(Wide(0))
    ELSE Ok(leUint32(Slice(b, tag * 8 + 4, tag * 8 + 8)))

DecodedMessage_GetUint8Array(b, tag) == DecodedMessage_GetIndirect(b, tag)

\* GetUint64: the eight bytes leUint64 reads, or "panic" on a shorter value
DecodedMessage_GetUint64(b, tag) ==
    LET value == DecodedMessage_GetIndirect(b, tag)
    IN  IF value.st # "ok" THEN value
        ELSE IF Len(value.val) = 0 THEN Ok(Zeros(8))
        ELSE IF Len(value.val) < 8 THEN Panic
        ELSE Ok(Slice(value.val, 0, 8))

DecodedMessage_GetText(b, tag) ==
    LET value == DecodedMessage_GetIndirect(b, tag)
    IN  IF value.st # "ok" THEN value
        ELSE IF Len(value.val) > 0
        THEN Ok(Slice(value.val, 0, Len(value.val) - 1))
        ELSE Ok(<<>>)

\* GetTextArray, followed by reading the returned view with Collect
DecodedMessage_GetTextArray(b, tag) ==
    LET value == DecodedMessage_GetIndirect(b, tag)
    IN  IF value.st # "ok" THEN value ELSE TextArrayCollect(value.val)

\* MessageDecoder.getIndirect reads the thunk as DecodedMessage.GetIndirect
\* does; the offset of the value in the buffer
MessageDecoder_valueOff(b, tag) ==
    WInt(WShl3([hi |-> leUint32(Slice(b, tag * 8, tag * 8 + 4)).hi % 4096,
                lo |-> leUint32(Slice(b, tag * 8, tag * 8 + 4)).lo]))

\* the loop of MessageDecoder.MessageArray over the value a, which the
\* decode callback rewrites in place; decode is NewMessageDecoder on the
\* element followed by Finish
RECURSIVE MessageDecoder_MessageArrayFrom(_, _, _, _, _)
MessageDecoder_MessageArrayFrom(a, arrayLen, ii, sizeOff, valueOff) ==
    IF ~WLt(Wide(ii), arrayLen)
    THEN [res |-> IF valueOff # Wide(Len(a)) THEN "err" ELSE "ok", buf |-> a]
    ELSE
      LET valueSize == leUint32(Slice(a, sizeOff, sizeOff + 4))
          valueEnd == WAdd64(valueOff, valueSize)
          decoded == NewMessageDecoder(Slice(a, WInt(valueOff), WInt(valueEnd)))
      IN  IF valueSize = Wide(0)
          THEN MessageDecoder_MessageArrayFrom(a, arrayLen, ii + 1, sizeOff + 4, valueOff)
          ELSE IF valueSize.lo % 8 # 0 THEN [res |-> "err", buf |-> a]
          ELSE IF WLt(Wide(Len(a)), valueEnd) THEN [res |-> "err", buf |-> a]
          ELSE IF decoded.res # "ok"
          THEN [res |-> decoded.res, buf |-> ReplaceAt(a, WInt(valueOff), decoded.buf)]
          ELSE MessageDecoder_MessageArrayFrom(
                   ReplaceAt(a, WInt(valueOff), decoded.buf),
                   arrayLen, ii + 1, sizeOff + 4, valueEnd)

MessageDecoder_MessageArray_value(a) ==
    IF Len(a) < 4 THEN [res |-> "err", buf |-> a]
    ELSE
      LET arrayLen == leUint32(Slice(a, 0, 4))
          base == WAdd64(Wide(4), WMul4(arrayLen))
          valueOff == IF arrayLen.lo % 2 = 0 THEN WAdd64(base, Wide(4)) ELSE base
      IN  IF WLt(Wide(Len(a)), valueOff) THEN [res |-> "err", buf |-> a]
          ELSE MessageDecoder_MessageArrayFrom(a, arrayLen, 0, 4, valueOff)

\* MessageDecoder.MessageArray(tag, decode) on a decoder without an error:
\* d.err after the call ("ok" for nil) and the buffer
MessageDecoder_MessageArray(b, tag) ==
    LET value == DecodedMessage_GetIndirect(b, tag)
    IN  IF value.st # "ok" THEN [res |-> "panic", buf |-> b]
        ELSE IF Len(value.val) = 0 THEN [res |-> "ok", buf |-> b]
        ELSE [res |-> MessageDecoder_MessageArray_value(value.val).res,
              buf |-> ReplaceAt(b, MessageDecoder_valueOff(b, tag),
                                MessageDecoder_MessageArray_value(value.val).buf)]

----------------------------------------------------------------------------
(* The decoding scenario: a buffer is validated by one of the two decoders, *)
(* then fields of an accepted buffer are read.                              *)

MaxThunks == 2
MaxDataWords == 2
MaxTexts == 2

header(size, flags, thunkCount) ==
    PutUint32(size) \o PutUint16(flags) \o PutUint16(thunkCount)

thunkBytes(handles, flags, value) ==
    PutUint16(handles) \o PutUint16(flags) \o PutUint32(value)

WrapSize == [hi |-> 65535, lo |-> 65529]

AllOnes == [hi |-> 65535, lo |-> 65535]

\* the thunks raw buffers are made of
ThunkWords ==
    { thunkBytes(0, 0, Wide(0)), thunkBytes(0, 0, Wide(1)),
      thunkBytes(0, 32768, Wide(7)), thunkBytes(0, 32769, Wide(0)),
      thunkBytes(1, 32768, AllOnes), thunkBytes(2, 32768, AllOnes),
      thunkBytes(0, 49152, Wide(2)), thunkBytes(0, 49152, Wide(8)),
      thunkBytes(0, 49152, WrapSize) }

\* the 8-byte data words raw buffers are made of
DataWords ==
    { <<97, 0, 0, 0, 0, 0, 0, 0>>, <<97, 0, 0, 0, 0, 0, 0, 1>>,
      <<5, 0, 0, 0, 0, 0, 0, 0>> }

RECURSIVE Concat(_)
Concat(ss) == IF Len(ss) = 0 THEN <<>> ELSE Head(ss) \o Concat(Tail(ss))

\* a raw buffer: a header, thunks and data words.  The header's size is the
\* length of the buffer or 8 more, its thunk count is the number of thunks
\* or one more, and the buffer may lose its last 4 bytes.
rawBuffer(ts, ds, skew, flags, extra, cut) ==
    LET body == header(Wide(8 * (1 + Len(ts) + Len(ds)) + skew), flags,
                       Len(ts) + extra) \o Concat(ts) \o Concat(ds)
    IN  SubSeq(body, 1, Len(body) - cut)

Texts == { <<>>, <<97>>, <<98, 99>> }

RECURSIVE TextLists(_)
TextLists(n) ==
    IF n = 0 THEN {<<>>}
    ELSE TextLists(n - 1) \cup
         {Append(l, t) : l \in {x \in TextLists(n - 1) : Len(x) = n - 1}, t \in Texts}

Hello == <<72, 101, 108, 108, 111>>

World == <<119, 111, 114, 108, 100, 33>>

HelloWorld == <<Hello, <<>>, <<44, 32>>, World>>

round8(n) == ((n + 7) \div 8) * 8

\* a text array as the format lays it out: count, sizes, NUL-terminated
\* elements, and no padding word
textArrayLayout(texts) ==
    PutUint32(Wide(Len(texts)))
    \o Concat([i \in 1..Len(texts) |-> PutUint32(Wide(Len(texts[i]) + 1))])
    \o Concat([i \in 1..Len(texts) |-> Append(texts[i], 0)])

MaxArrayMsgs == 2

\* the elements message arrays are made of, each with the size the array
\* records for it: an empty message; no bytes; four bytes; eight bytes whose
\* header gives size 16; a message with one indirect field
ArrayElements ==
    {[size |-> 8, bytes |-> header(Wide(8), 0, 0)],
     [size |-> 0, bytes |-> <<>>],
     [size |-> 4, bytes |-> <<8, 0, 0, 0>>],
     [size |-> 8, bytes |-> header(Wide(16), 0, 0)],
     [size |-> 24, bytes |-> header(Wide(24), 0, 1) \o thunkBytes(0, 49152, Wide(1))
                             \o <<97, 0, 0, 0, 0, 0, 0, 0>>]}

\* a message array as the format lays it out: count, sizes, a padding word
\* after an even number of sizes, and the elements
messageArrayLayout(elems) ==
    PutUint32(Wide(Len(elems)))
    \o Concat([i \in 1..Len(elems) |-> PutUint32(Wide(elems[i].size))])
    \o (IF Len(elems) % 2 = 0 THEN Zeros(4) ELSE <<>>)
    \o Concat([i \in 1..Len(elems) |-> elems[i].bytes])

\* a message whose field 1 is the indirect value v
singleIndirectMessage(v) ==
    header(Wide(16 + round8(Len(v))), 0, 1)
    \o thunkBytes(0, 49152, Wide(Len(v)))
    \o v \o Zeros(round8(Len(v)) - Len(v))

Accessors == {"GetUint32", "GetUint8Array", "GetUint64", "GetText",
              "GetTextArray", "GetMessageArray"}

NoRead == [lib |-> "none", tag |-> 0, acc |-> "none", out |-> Ok(<<>>), all |-> <<>>]

NoBuilder == <<>>

Idle == <<>>

InitDecode ==
    /\ phase = "raw"
    /\ \/ \E n \in 0..MaxThunks, m \in 0..MaxDataWords :
            \E ts \in [1..n -> ThunkWords], ds \in [1..m -> DataWords],
               skew \in {0, 8}, flags \in {0, 1}, extra \in {0, 1}, cut \in {0, 4} :
                 /\ buf = rawBuffer(ts, ds, skew, flags, extra, cut)
                 /\ origin = [kind |-> "raw", src |-> <<>>, bytes |-> buf]
       \/ \E l \in TextLists(MaxTexts) \cup {HelloWorld} :
             /\ buf = singleIndirectMessage(textArrayLayout(l))
             /\ origin = [kind |-> "textarray", src |-> l, bytes |-> buf]
       \/ \E n \in 0..MaxArrayMsgs : \E elems \in [1..n -> ArrayElements] :
             /\ buf = singleIndirectMessage(messageArrayLayout(elems))
             /\ origin = [kind |-> "messagearray", src |-> elems, bytes |-> buf]
    /\ accepted = "none"
    /\ rd = NoRead
    /\ bld = NoBuilder
    /\ lex = Idle
    /\ prs = Idle
    /\ cmp = Idle

\* idolbin.NewMessage(buf)
ValidateIdolbin ==
    /\ phase = "raw"
    /\ phase' = "idolbin"
    /\ accepted' = NewMessage(buf)
    /\ UNCHANGED <<buf, origin, rd, bld, lex, prs, cmp>>

\* idol.NewMessageDecoder(ctx, buf): decodeThunks rewrites buf in place
ValidateIdol ==
    /\ phase = "raw"
    /\ phase' = "idol"
    /\ LET dec == NewMessageDecoder(buf)
       IN  accepted' = dec.res /\ buf' = dec.buf
    /\ UNCHANGED <<origin, rd, bld, lex, prs, cmp>>

idolbinRead(b, tag, acc) ==
    IF Field(b, tag) = "nil" THEN [st |-> "nil", val |-> <<>>]
    ELSE CASE acc = "GetUint32" -> MessageField_GetUint32(b, tag)
           [] acc = "GetUint8Array" -> MessageField_GetUint8Array(b, tag)
           [] acc = "GetText" -> MessageField_GetText(b, tag)
           [] acc = "GetTextArray" -> MessageField_GetTextArray(b, tag)
           [] acc = "GetMessageArray" -> MessageField_GetMessageArray(b, tag)
           [] OTHER -> [st |-> "nil", val |-> <<>>]

idolRead(b, tag, acc) ==
    CASE acc = "GetUint32" -> DecodedMessage_GetUint32(b, tag)
      [] acc = "GetUint8Array" -> DecodedMessage_GetUint8Array(b, tag)
      [] acc = "GetUint64" -> DecodedMessage_GetUint64(b, tag)
      [] acc = "GetText" -> DecodedMessage_GetText(b, tag)
      [] acc = "GetTextArray" -> DecodedMessage_GetTextArray(b, tag)
      [] OTHER -> [st |-> "nil", val |-> <<>>]

\* message.Field(tag).<accessor>() on a Message that NewMessage returned
ReadIdolbin ==
    /\ phase = "idolbin"
    /\ accepted = "ok"
    /\ \E tag \in 0..(MaxThunks + 1), acc \in Accessors \ {"GetUint64"} :
          rd' = [lib |-> "idolbin", tag |-> tag, acc |-> acc,
                 out |-> idolbinRead(buf, tag, acc), all |-> <<>>]
    /\ UNCHANGED <<phase, buf, origin, accepted, bld, lex, prs, cmp>>

\* a getter of the DecodedMessage over a buffer NewMessageDecoder accepted
ReadIdol ==
    /\ phase = "idol"
    /\ accepted = "ok"
    /\ \E tag \in 0..(MaxThunks + 1), acc \in Accessors \ {"GetMessageArray"} :
          rd' = [lib |-> "idol", tag |-> tag, acc |-> acc,
                 out |-> idolRead(buf, tag, acc), all |-> <<>>]
    /\ UNCHANGED <<phase, buf, origin, accepted, bld, lex, prs, cmp>>

\* d.MessageArray(tag, decode) and d.Finish() on the decoder of an accepted
\* buffer
DecodeMessageArray ==
    /\ phase = "idol"
    /\ accepted = "ok"
    /\ \E tag \in 0..(MaxThunks + 1) :
          /\ rd' = [lib |-> "idol", tag |-> tag, acc |-> "MessageArray",
                    out |-> [st |-> MessageDecoder_MessageArray(buf, tag).res,
                             val |-> <<>>],
                    all |-> <<>>]
          /\ buf' = MessageDecoder_MessageArray(buf, tag).buf
    /\ UNCHANGED <<phase, origin, accepted, bld, lex, prs, cmp>>

NextDecode ==
    ValidateIdolbin \/ ValidateIdol \/ ReadIdolbin \/ ReadIdol \/ DecodeMessageArray

SpecDecode == InitDecode /\ [][NextDecode]_vars

----------------------------------------------------------------------------
(* Claims about validation and field access.                                *)

\* C1: there are no partial decodes: once validation (idolbin.NewMessage or
\* idol.NewMessageDecoder) has accepted a buffer, reading any field by any
\* tag through any accessor never indexes outside the buffer.
C1_NoPartialDecodes == accepted = "ok" => rd.out.st # "panic"

\* a field of an accepted buffer has been read and the read returned bytes
C1_AcceptedRead ==
    /\ accepted = "ok"
    /\ rd.acc = "GetText"
    /\ rd.out.st = "ok"
    /\ Len(rd.out.val) > 0

\* the validation rules, as the format states them, with exact arithmetic
WRound8(v) ==
    IF v.lo % 8 = 0 THEN v
    ELSE WAdd64([hi |-> v.hi, lo |-> v.lo - (v.lo % 8)], Wide(8))

ruleThunk(b, t) == Slice(b, t * 8, t * 8 + 8)

ruleIndirect(b, t) == (leUint16(Slice(ruleThunk(b, t), 2, 4)) \div 16384) = 3

RECURSIVE ruleOffset(_, _)
\* the running data offset after the payloads of thunks 1..t
ruleOffset(b, t) ==
    IF t = 0 THEN Wide(8 + 8 * leUint16(Slice(b, 6, 8)))
    ELSE IF ruleIndirect(b, t)
         THEN WAdd64(ruleOffset(b, t - 1),
                     WRound8(leUint32(Slice(ruleThunk(b, t), 4, 8))))
         ELSE ruleOffset(b, t - 1)

Rule1(b) == Len(b) % 8 = 0 /\ Len(b) >= 8 /\ WLe(Wide(Len(b)), MaxMessageSize)

Rule2(b) == leUint32(Slice(b, 0, 4)) = Wide(Len(b)) /\ leUint16(Slice(b, 4, 6)) = 0

Rule3(b) ==
    \A t \in 1..leUint16(Slice(b, 6, 8)) :
        leUint16(Slice(ruleThunk(b, t), 2, 4)) % 16384 = 0

Rule4(b) ==
    \A t \in 1..leUint16(Slice(b, 6, 8)) :
        ruleIndirect(b, t) =>
            /\ WLe(ruleOffset(b, t), Wide(Len(b)))
            /\ \A i \in 1..Len(b) :
                  ( /\ WLe(WAdd64(ruleOffset(b, t - 1),
                                  leUint32(Slice(ruleThunk(b, t), 4, 8))), Wide(i - 1))
                    /\ WLt(Wide(i - 1), ruleOffset(b, t)) ) => b[i] = 0

Rule5(b) == ruleOffset(b, leUint16(Slice(b, 6, 8))) = Wide(Len(b))

ViolatesRules1To5(b) ==
    ~( /\ Rule1(b)
       /\ Rule2(b)
       /\ 8 + 8 * leUint16(Slice(b, 6, 8)) <= Len(b)
       /\ Rule3(b)
       /\ Rule4(b)
       /\ Rule5(b) )

\* C2: every buffer that violates one of the validation rules 1-5 makes
\* validation return a decode error: it is neither accepted nor does it
\* crash the decoder.
C2_ViolationIsError ==
    (phase \in {"idolbin", "idol"} /\ ViolatesRules1To5(origin.bytes))
        => accepted = "err"

\* a buffer that breaks a rule has been validated and rejected with an error
C2_ViolationRejected ==
    /\ phase \in {"idolbin", "idol"}
    /\ ViolatesRules1To5(origin.bytes)
    /\ Rule1(origin.bytes) /\ Rule2(origin.bytes)
    /\ accepted = "err"

\* C5: a text array laid out as a count, one size per element, no padding
\* word (for even and odd counts alike) and the NUL-terminated elements is
\* accepted when the field is read, and reading the view yields the element
\* strings in order without their terminators.
C5_TextArrayReadsBack ==
    (origin.kind = "textarray" /\ Len(origin.src) > 0 /\ rd.acc = "GetTextArray"
       /\ rd.tag = 1)
        => (accepted = "ok" /\ rd.out = Ok(origin.src))

\* a text array with an odd number of elements has been read back
C5_OddCountRead ==
    /\ origin.kind = "textarray"
    /\ Len(origin.src) = 1
    /\ rd.lib = "idolbin"
    /\ rd.acc = "GetTextArray"
    /\ rd.tag = 1
    /\ rd.out = Ok(origin.src)

----------------------------------------------------------------------------
(* package idol: the field builders.  Each builder is a record of its Go    *)
(* fields; PutThunk returns the thunk it leaves in a zeroed 8-byte slot.    *)

pad8(n) == IF n % 8 = 0 THEN n ELSE ((n + 7) \div 8) * 8

Uint32FieldBuilder_IsPresent(b) == b.value # Wide(0)

Uint32FieldBuilder_PutThunk(b) ==
    IF Uint32FieldBuilder_IsPresent(b)
    THEN thunkBytes(0, 32768, b.value) ELSE Zeros(8)

Uint64FieldBuilder_IsPresent(b) == b.value # Zeros(8)

Uint64FieldBuilder_DataSize(b) == IF b.value = Zeros(8) THEN 0 ELSE 8

Uint64FieldBuilder_PutThunk(b) ==
    IF Uint64FieldBuilder_IsPresent(b)
    THEN thunkBytes(0, 49152, Wide(8)) ELSE Zeros(8)

Uint64FieldBuilder_EncodeData(b) ==
    IF ~Uint64FieldBuilder_IsPresent(b) THEN <<>> ELSE b.value

Uint8ArrayFieldBuilder_IsPresent(b) == b.valueSize > 0

Uint8ArrayFieldBuilder_DataSize(b) == pad8(b.valueSize)

Uint8ArrayFieldBuilder_PutThunk(b) ==
    IF Uint8ArrayFieldBuilder_IsPresent(b)
    THEN thunkBytes(0, 49152, Wide(b.valueSize)) ELSE Zeros(8)

Uint8ArrayFieldBuilder_EncodeData(b) ==
    LET paddedSize == ((b.valueSize + 7) \div 8) * 8
    IN  IF ~Uint8ArrayFieldBuilder_IsPresent(b) THEN <<>>
        ELSE IF paddedSize > b.valueSize
        THEN b.value \o Zeros(paddedSize - b.valueSize)
        ELSE b.value

Uint8ArrayFieldBuilder_SetBytes(value) ==
    [value |-> value, valueSize |-> Len(value)]

TextFieldBuilder_IsPresent(b) == Len(b.value) > 0

TextFieldBuilder_DataSize(b) ==
    IF ~TextFieldBuilder_IsPresent(b) THEN 0 ELSE pad8(Len(b.value) + 1)

TextFieldBuilder_PutThunk(b) ==
    IF TextFieldBuilder_IsPresent(b)
    THEN thunkBytes(0, 49152, Wide(Len(b.value) + 1)) ELSE Zeros(8)

\* a text field builder that writes the value and its NUL but no padding
TextFieldBuilder_EncodeData_Unpadded(b) ==
    IF Len(b.value) = 0 THEN <<>> ELSE Append(b.value, 0)

TextFieldBuilder_EncodeData(b) ==
    LET size == Len(b.value)
        paddedSize == pad8(size + 1)
        padLen == paddedSize - size
    IN  IF ~TextFieldBuilder_IsPresent(b) THEN <<>>
        ELSE b.value \o Zeros(padLen)

TextArrayFieldBuilder_IsPresent(b) == Len(b.values) > 0

TextArrayFieldBuilder_DataSize(b) ==
    IF Len(b.values) = 0 THEN 0
    ELSE pad8(4 + 4 * Len(b.values) + b.valuesSize)

TextArrayFieldBuilder_Add(b, value) ==
    [values |-> Append(b.values, value),
     valuesSize |-> b.valuesSize + Len(value) + 1]

TextArrayFieldBuilder_PutThunk(b) ==
    IF TextArrayFieldBuilder_IsPresent(b)
    THEN thunkBytes(0, 49152, Wide(TextArrayFieldBuilder_DataSize(b)))
    ELSE Zeros(8)

TextArrayFieldBuilder_EncodeData(b) ==
    LET sizes == PutUint32(Wide(Len(b.values)))
                 \o Concat([i \in 1..Len(b.values) |->
                              PutUint32(Wide(Len(b.values[i]) + 1))])
        body == sizes \o Concat([i \in 1..Len(b.values) |-> Append(b.values[i], 0)])
        wrote == Len(body)
    IN  IF ~TextArrayFieldBuilder_IsPresent(b) THEN <<>>
        ELSE IF wrote % 8 # 0 THEN body \o Zeros(8 - (wrote % 8))
        ELSE body

----------------------------------------------------------------------------
(* package idol: MessageSizeBuilder.                                        *)

MessageSizeBuilder_Scalar(b, tag) == [b EXCEPT !.thunksLen = tag]

MessageSizeBuilder_Indirect(b, tag, dataSize) ==
    LET sum == WAdd64(b.dataSize, dataSize)
    IN  [thunksLen |-> tag,
         dataSize |-> IF dataSize = Wide(0) THEN b.dataSize
                      ELSE IF sum.hi >= W16 THEN AllOnes ELSE sum]

MessageSizeBuilder_Finish(b) ==
    LET sum == WAdd64(Wide(8 + b.thunksLen * 8), b.dataSize)
    IN  IF b.thunksLen = 0 THEN [size |-> Wide(0), thunksLen |-> 0]
        ELSE [size |-> IF sum.hi >= W16 THEN AllOnes ELSE sum,
              thunksLen |-> b.thunksLen]

(* The message-level encoder.  A message builder is the sequence of its     *)
(* fields in tag order, each field giving what its field builder reports:   *)
(* present, indirect, thunk, dataSize, data, and the offsets inside data at *)
(* which nested indirect payloads start.  Size runs the MessageSizeBuilder  *)
(* over the present fields; EncodeTo writes the header, the thunk table and *)
(* then every field's data in tag order.                                    *)

RECURSIVE sizeFieldsFrom(_, _, _)
sizeFieldsFrom(fields, tag, szb) ==
    IF tag > Len(fields) THEN szb
    ELSE sizeFieldsFrom(fields, tag + 1,
            IF ~fields[tag].present THEN szb
            ELSE IF fields[tag].indirect
            THEN MessageSizeBuilder_Indirect(szb, tag, Wide(fields[tag].dataSize))
            ELSE MessageSizeBuilder_Scalar(szb, tag))

MessageBuilder_Finish(fields) ==
    MessageSizeBuilder_Finish(
        sizeFieldsFrom(fields, 1, [dataSize |-> Wide(0), thunksLen |-> 0]))

MessageBuilder_Size(fields) == WInt(MessageBuilder_Finish(fields).size)

MessageBuilder_EncodeTo(fields) ==
    LET fin == MessageBuilder_Finish(fields)
    IN  IF fin.thunksLen = 0 THEN <<>>
        ELSE header(fin.size, 0, fin.thunksLen)
             \o Concat([tag \in 1..fin.thunksLen |-> fields[tag].thunk])
             \o Concat([tag \in 1..Len(fields) |-> fields[tag].data])

\* the offset in the encoded message at which the data of field tag starts
MessageBuilder_DataOffset(fields, tag) ==
    8 + 8 * MessageBuilder_Finish(fields).thunksLen
      + Len(Concat([t \in 1..(tag - 1) |-> fields[t].data]))

\* the offsets in the encoded message at which indirect payloads start
MessageBuilder_Starts(fields) ==
    UNION { IF Len(fields[tag].data) = 0 THEN {}
            ELSE {MessageBuilder_DataOffset(fields, tag)}
                 \cup {MessageBuilder_DataOffset(fields, tag) + o :
                          o \in fields[tag].starts} : tag \in 1..Len(fields) }

ScalarField(present, thunk) ==
    [present |-> present, indirect |-> FALSE, thunk |-> thunk,
     dataSize |-> 0, data |-> <<>>, starts |-> {}]

IndirectField(present, thunk, dataSize, data, starts) ==
    [present |-> present, indirect |-> TRUE, thunk |-> thunk,
     dataSize |-> dataSize, data |-> data, starts |-> starts]

\* the nested message type: field 1 is a u32, field 2 is a text
InnerFields(ib) ==
    << ScalarField(Uint32FieldBuilder_IsPresent(ib.a), Uint32FieldBuilder_PutThunk(ib.a)),
       IndirectField(TextFieldBuilder_IsPresent(ib.t), TextFieldBuilder_PutThunk(ib.t),
                     TextFieldBuilder_DataSize(ib.t), TextFieldBuilder_EncodeData(ib.t), {}) >>

----------------------------------------------------------------------------
(* package idol: MessageFieldBuilder and MessageArrayFieldBuilder over the  *)
(* nested message type.  A nil value is [set |-> FALSE].                    *)

MessageFieldBuilder_IsPresent(b) == b.set

MessageFieldBuilder_DataSize(b) ==
    IF ~b.set THEN 0 ELSE MessageBuilder_Size(InnerFields(b.value))

MessageFieldBuilder_PutThunk(b) ==
    IF ~b.set THEN Zeros(8)
    ELSE thunkBytes(0, 49152, Wide(MessageBuilder_Size(InnerFields(b.value))))

MessageFieldBuilder_EncodeData(b) ==
    IF ~b.set THEN <<>> ELSE MessageBuilder_EncodeTo(InnerFields(b.value))

MessageArrayFieldBuilder_IsPresent(b) == Len(b.values) > 0

RECURSIVE SumSizes(_)
SumSizes(values) ==
    IF Len(values) = 0 THEN 0
    ELSE MessageBuilder_Size(InnerFields(Head(values))) + SumSizes(Tail(values))

MessageArrayFieldBuilder_DataSize(b) ==
    IF Len(b.values) = 0 THEN 0
    ELSE 4 + 4 * Len(b.values)
           + (IF Len(b.values) % 2 = 0 THEN 4 ELSE 0) + SumSizes(b.values)

MessageArrayFieldBuilder_PutThunk(b) ==
    IF MessageArrayFieldBuilder_IsPresent(b)
    THEN thunkBytes(0, 49152, Wide(MessageArrayFieldBuilder_DataSize(b)))
    ELSE Zeros(8)

MessageArrayFieldBuilder_Sizes(b) ==
    PutUint32(Wide(Len(b.values)))
    \o Concat([i \in 1..Len(b.values) |->
                 PutUint32(Wide(MessageBuilder_Size(InnerFields(b.values[i]))))])
    \o (IF Len(b.values) % 2 = 0 THEN <<0, 0, 0, 0>> ELSE <<>>)

MessageArrayFieldBuilder_EncodeData(b) ==
    IF ~MessageArrayFieldBuilder_IsPresent(b) THEN <<>>
    ELSE MessageArrayFieldBuilder_Sizes(b)
         \o Concat([i \in 1..Len(b.values) |->
                      MessageBuilder_EncodeTo(InnerFields(b.values[i]))])

MessageArrayFieldBuilder_Add(b, value) == [values |-> Append(b.values, value)]

\* where the elements of an encoded message array, and their payloads, start
MessageArrayFieldBuilder_Starts(b) ==
    UNION { LET off == Len(MessageArrayFieldBuilder_Sizes(b))
                       + Len(Concat([j \in 1..(i - 1) |->
                               MessageBuilder_EncodeTo(InnerFields(b.values[j]))]))
            IN  IF MessageBuilder_Size(InnerFields(b.values[i])) = 0 THEN {}
                ELSE {off} \cup {off + o :
                        o \in MessageBuilder_Starts(InnerFields(b.values[i]))} :
            i \in 1..Len(b.values) }

----------------------------------------------------------------------------
(* The encoding scenario: the fields of a message builder are set, the      *)
(* builder is encoded, the bytes are validated by one of the decoders and   *)
(* the fields are read back.  The message type has the fields               *)
(*   1: u32, 2: text, 3: text array, 4: u8 array, 5: u64,                   *)
(*   6: nested message, 7: message array.                                   *)

MaxMessages == 2

EmptyInner == [a |-> [value |-> Wide(0)], t |-> [value |-> <<>>]]

EmptyBuilder ==
    [a |-> [value |-> Wide(0)],
     t |-> [value |-> <<>>],
     ta |-> [values |-> <<>>, valuesSize |-> 0],
     u8 |-> [value |-> <<>>, valueSize |-> 0],
     q |-> [value |-> Zeros(8)],
     m |-> [set |-> FALSE, value |-> EmptyInner],
     ma |-> [values |-> <<>>]]

Uint32Values == { [hi |-> 1027, lo |-> 513] }

TextValues == { <<97>>, <<97, 98, 99, 100, 101, 102, 103>> }

ArrayTextValues == { <<>>, <<97>> }

BytesValues == { <<1, 2, 3>> }

Uint64Values == { <<1, 0, 0, 0, 0, 0, 0, 128>> }

InnerValues ==
    { [a |-> [value |-> Wide(7)], t |-> [value |-> <<>>]],
      [a |-> [value |-> Wide(0)], t |-> [value |-> <<97>>]] }

NestedValues ==
    { EmptyInner, [a |-> [value |-> Wide(0)], t |-> [value |-> <<97>>]] }

OuterFields(b) ==
    << ScalarField(Uint32FieldBuilder_IsPresent(b.a), Uint32FieldBuilder_PutThunk(b.a)),
       IndirectField(TextFieldBuilder_IsPresent(b.t), TextFieldBuilder_PutThunk(b.t),
                     TextFieldBuilder_DataSize(b.t), TextFieldBuilder_EncodeData(b.t), {}),
       IndirectField(TextArrayFieldBuilder_IsPresent(b.ta),
                     TextArrayFieldBuilder_PutThunk(b.ta),
                     TextArrayFieldBuilder_DataSize(b.ta),
                     TextArrayFieldBuilder_EncodeData(b.ta), {}),
       IndirectField(Uint8ArrayFieldBuilder_IsPresent(b.u8),
                     Uint8ArrayFieldBuilder_PutThunk(b.u8),
                     Uint8ArrayFieldBuilder_DataSize(b.u8),
                     Uint8ArrayFieldBuilder_EncodeData(b.u8), {}),
       IndirectField(Uint64FieldBuilder_IsPresent(b.q), Uint64FieldBuilder_PutThunk(b.q),
                     Uint64FieldBuilder_DataSize(b.q), Uint64FieldBuilder_EncodeData(b.q), {}),
       IndirectField(MessageFieldBuilder_IsPresent(b.m), MessageFieldBuilder_PutThunk(b.m),
                     MessageFieldBuilder_DataSize(b.m), MessageFieldBuilder_EncodeData(b.m),
                     IF b.m.set THEN MessageBuilder_Starts(InnerFields(b.m.value)) ELSE {}),
       IndirectField(MessageArrayFieldBuilder_IsPresent(b.ma),
                     MessageArrayFieldBuilder_PutThunk(b.ma),
                     MessageArrayFieldBuilder_DataSize(b.ma),
                     MessageArrayFieldBuilder_EncodeData(b.ma),
                     MessageArrayFieldBuilder_Starts(b.ma)) >>

InitEncode ==
    /\ phase = "build"
    /\ buf = <<>>
    /\ origin = [kind |-> "builder", src |-> {}, bytes |-> <<>>]
    /\ accepted = "none"
    /\ rd = NoRead
    /\ bld = EmptyBuilder
    /\ lex = Idle
    /\ prs = Idle
    /\ cmp = Idle

Building(field) ==
    /\ phase = "build"
    /\ bld[field] = EmptyBuilder[field]
    /\ UNCHANGED <<phase, buf, origin, accepted, rd, lex, prs, cmp>>

\* Uint32FieldBuilder.Set
SetUint32 ==
    /\ Building("a")
    /\ \E v \in Uint32Values : bld' = [bld EXCEPT !.a = [value |-> v]]

\* TextFieldBuilder.Set
SetText ==
    /\ Building("t")
    /\ \E v \in TextValues : bld' = [bld EXCEPT !.t = [value |-> v]]

\* Uint8ArrayFieldBuilder.SetBytes
SetBytes ==
    /\ Building("u8")
    /\ \E v \in BytesValues : bld' = [bld EXCEPT !.u8 = Uint8ArrayFieldBuilder_SetBytes(v)]

\* Uint64FieldBuilder.Set
SetUint64 ==
    /\ Building("q")
    /\ \E v \in Uint64Values : bld' = [bld EXCEPT !.q = [value |-> v]]

\* MessageFieldBuilder.Set
SetMessage ==
    /\ Building("m")
    /\ \E v \in NestedValues :
          bld' = [bld EXCEPT !.m = [set |-> TRUE, value |-> v]]

\* TextArrayFieldBuilder.Add
AddText ==
    /\ phase = "build"
    /\ Len(bld.ta.values) < MaxTexts
    /\ \E v \in ArrayTextValues :
          bld' = [bld EXCEPT !.ta = TextArrayFieldBuilder_Add(bld.ta, v)]
    /\ UNCHANGED <<phase, buf, origin, accepted, rd, lex, prs, cmp>>

\* MessageArrayFieldBuilder.Add
AddMessage ==
    /\ phase = "build"
    /\ Len(bld.ma.values) < MaxMessages
    /\ \E v \in InnerValues :
          bld' = [bld EXCEPT !.ma = MessageArrayFieldBuilder_Add(bld.ma, v)]
    /\ UNCHANGED <<phase, buf, origin, accepted, rd, lex, prs, cmp>>

\* idol.Encode(ctx, builder)
Encode ==
    /\ phase = "build"
    /\ phase' = "raw"
    /\ buf' = MessageBuilder_EncodeTo(OuterFields(bld))
    /\ origin' = [kind |-> "builder", src |-> MessageBuilder_Starts(OuterFields(bld)),
                  bytes |-> buf']
    /\ UNCHANGED <<accepted, rd, bld, lex, prs, cmp>>

\* what the builder stored in the field with the given tag
storedInner(ib) == [a |-> ib.a.value, t |-> ib.t.value]

storedValue(b, tag) ==
    CASE tag = 1 -> b.a.value
      [] tag = 2 -> b.t.value
      [] tag = 3 -> b.ta.values
      [] tag = 4 -> b.u8.value
      [] tag = 5 -> b.q.value
      [] tag = 6 -> IF b.m.set THEN storedInner(b.m.value) ELSE storedInner(EmptyInner)
      [] tag = 7 -> [i \in 1..Len(b.ma.values) |-> storedInner(b.ma.values[i])]

\* both parts of a pair of reads, or the first failure
Both(x, y, v) == IF x.st # "ok" THEN x ELSE IF y.st # "ok" THEN y ELSE Ok(v)

\* the first failure among the outcomes rs, or Ok of their values
AllOf(rs) ==
    IF \E i \in 1..Len(rs) : rs[i].st # "ok"
    THEN rs[CHOOSE i \in 1..Len(rs) :
               rs[i].st # "ok" /\ \A j \in 1..(i - 1) : rs[j].st = "ok"]
    ELSE Ok([i \in 1..Len(rs) |-> rs[i].val])

\* a field read through idolbin; a tag past the thunk table has no field
\* and reads as the default
idolbinGet(b, tag, acc) ==
    IF Field(b, tag) = "nil"
    THEN Ok(IF acc = "GetUint32" THEN Wide(0) ELSE <<>>)
    ELSE idolbinRead(b, tag, acc)

\* the nested message type read through idolbin
idolbinInner(bytes) ==
    IF Len(bytes) = 0 THEN Ok(storedInner(EmptyInner))
    ELSE IF NewMessage(bytes) = "panic" THEN Panic
    ELSE IF NewMessage(bytes) # "ok" THEN Err
    ELSE LET a == idolbinGet(bytes, 1, "GetUint32")
             t == idolbinGet(bytes, 2, "GetText")
         IN  Both(a, t, [a |-> a.val, t |-> t.val])

idolbinReadBack(b, tag) ==
    CASE tag = 1 -> idolbinGet(b, 1, "GetUint32")
      [] tag = 2 -> idolbinGet(b, 2, "GetText")
      [] tag = 3 -> idolbinGet(b, 3, "GetTextArray")
      [] tag = 4 -> idolbinGet(b, 4, "GetUint8Array")
      [] tag = 5 -> LET v == idolbinGet(b, 5, "GetUint8Array")
                    IN  IF v.st = "ok" /\ Len(v.val) = 0 THEN Ok(Zeros(8)) ELSE v
      [] tag = 6 -> LET v == idolbinGet(b, 6, "GetUint8Array")
                    IN  IF v.st # "ok" THEN v ELSE idolbinInner(v.val)
      [] tag = 7 -> LET v == idolbinGet(b, 7, "GetMessageArray")
                    IN  IF v.st # "ok" THEN v
                        ELSE AllOf([i \in 1..Len(v.val) |-> idolbinInner(v.val[i])])

\* the nested message type decoded by package idol
idolInner(bytes) ==
    LET dec == NewMessageDecoder(bytes)
        a == DecodedMessage_GetUint32(dec.buf, 1)
        t == DecodedMessage_GetText(dec.buf, 2)
    IN  IF Len(bytes) = 0 THEN Ok(storedInner(EmptyInner))
        ELSE IF dec.res = "panic" THEN Panic
        ELSE IF dec.res # "ok" THEN Err
        ELSE Both(a, t, [a |-> a.val, t |-> t.val])

idolReadBack(b, tag) ==
    CASE tag = 1 -> DecodedMessage_GetUint32(b, 1)
      [] tag = 2 -> DecodedMessage_GetText(b, 2)
      [] tag = 3 -> DecodedMessage_GetTextArray(b, 3)
      [] tag = 4 -> DecodedMessage_GetUint8Array(b, 4)
      [] tag = 5 -> DecodedMessage_GetUint64(b, 5)
      [] tag = 6 -> LET v == DecodedMessage_GetIndirect(b, 6)
                    IN  IF v.st # "ok" THEN v ELSE idolInner(v.val)
      [] tag = 7 -> LET v == DecodedMessage_GetIndirect(b, 7)
                        elems == MessageArrayCollect(v.val)
                    IN  IF v.st # "ok" THEN v
                        ELSE IF elems.st # "ok" THEN elems
                        ELSE AllOf([i \in 1..Len(elems.val) |-> idolInner(elems.val[i])])

\* every field of the message idolbin.NewMessage returned is read
ReadBackIdolbin ==
    /\ phase = "idolbin"
    /\ accepted = "ok"
    /\ rd' = [lib |-> "idolbin", tag |-> 0, acc |-> "readback", out |-> Ok(<<>>),
              all |-> [tag \in 1..7 |-> idolbinReadBack(buf, tag)]]
    /\ UNCHANGED <<phase, buf, origin, accepted, bld, lex, prs, cmp>>

\* every field of the message package idol decoded is read
ReadBackIdol ==
    /\ phase = "idol"
    /\ accepted = "ok"
    /\ rd' = [lib |-> "idol", tag |-> 0, acc |-> "readback", out |-> Ok(<<>>),
              all |-> [tag \in 1..7 |-> idolReadBack(buf, tag)]]
    /\ UNCHANGED <<phase, buf, origin, accepted, bld, lex, prs, cmp>>

NextEncode ==
    \/ SetUint32 \/ SetText \/ SetBytes \/ SetUint64 \/ SetMessage
    \/ AddText \/ AddMessage \/ Encode
    \/ ValidateIdolbin \/ ValidateIdol \/ ReadBackIdolbin \/ ReadBackIdol

SpecEncode == InitEncode /\ [][NextEncode]_vars

\* C3: message encode/decode inverse: for every assignment of values to the
\* fields of a builder, decoding the encoded bytes succeeds and every field
\* of the decoded message reads back the value the builder stored.
C3_EncodeDecodeInverse ==
    /\ (phase \in {"idolbin", "idol"} /\ bld # EmptyBuilder) => accepted = "ok"
    /\ rd.acc = "readback" =>
          \A tag \in 1..7 : rd.all[tag] = Ok(storedValue(bld, tag))

\* a text array and a message array have been encoded and read back
C3_ReadBackDone ==
    /\ rd.acc = "readback"
    /\ rd.lib = "idol"
    /\ Len(bld.ta.values) = 2
    /\ Len(bld.ma.values) = 2
    /\ bld.t.value # <<>>
    /\ \A tag \in 1..7 : rd.all[tag] = Ok(storedValue(bld, tag))

\* C4: alignment invariant: every encoded message has a length that is a
\* multiple of 8 and every indirect payload starts at an offset that is a
\* multiple of 8, because every field builder's EncodeData writes exactly
\* DataSize() bytes, a multiple of 8: its payload, then zero bytes.
C4_Alignment ==
    LET fields == OuterFields(bld)
        text == fields[2].data
    IN  /\ phase # "build" =>
              /\ Len(origin.bytes) % 8 = 0
              /\ \A o \in origin.src : o % 8 = 0
        /\ phase = "raw" => Len(origin.bytes) = MessageBuilder_Size(fields)
        /\ phase = "build" =>
              /\ \A tag \in 2..7 :
                    /\ Len(fields[tag].data) = fields[tag].dataSize
                    /\ fields[tag].dataSize % 8 = 0
              /\ SubSeq(text, 1, Len(bld.t.value)) = bld.t.value
              /\ \A i \in (Len(bld.t.value) + 1)..Len(text) : text[i] = 0

\* a message with padded text, a text array, a nested message and a message
\* array of two elements has been encoded
C4_EncodedWithPadding ==
    /\ phase = "raw"
    /\ Len(bld.t.value) = 1
    /\ Len(bld.ta.values) = 1
    /\ bld.m.set
    /\ Len(bld.ma.values) = 2
    /\ Cardinality(origin.src) >= 6

----------------------------------------------------------------------------
(* package syntax: the lexer.  A Tokens value is [src, offset]; Next        *)
(* returns [err, token, t]: err is 0 or the code of the lexical error,      *)
(* token is [Kind, Len] and t the Tokens value after the call.              *)

maxTokenLen == 65535

isDigit(c) == c >= 48 /\ c <= 57

isLetter(c) == (c >= 65 /\ c <= 90) \/ (c >= 97 /\ c <= 122)

\* utf8.DecodeRune on valid UTF-8 of one- and two-byte sequences
DecodeRune(src) ==
    IF src[1] < 128 THEN [r |-> src[1], len |-> 1]
    ELSE IF src[1] >= 194 /\ src[1] <= 223 /\ Len(src) >= 2
    THEN [r |-> (src[1] % 32) * 64 + (src[2] % 64), len |-> 2]
    ELSE [r |-> 65533, len |-> 1]

\* the number of leading bytes of src that are in the set S
prefixLen(src, S) ==
    IF \E i \in 1..Len(src) : src[i] \notin S
    THEN (CHOOSE i \in 1..Len(src) :
              src[i] \notin S /\ \A j \in 1..(i - 1) : src[j] \in S) - 1
    ELSE Len(src)

lexError(t, code) == [err |-> code, token |-> [Kind |-> "EOF", Len |-> 0], t |-> t]

\* the token is stored and the Tokens value advances by tokenLen, after
\* checkTokenLen
lexToken(t, kind, tokenLen) ==
    IF tokenLen > maxTokenLen THEN lexError(t, 1004)
    ELSE [err |-> 0, token |-> [Kind |-> kind, Len |-> tokenLen],
          t |-> [src |-> SubSeq(t.src, tokenLen + 1, Len(t.src)),
                 offset |-> t.offset + tokenLen]]

\* the one-byte token is stored and the Tokens value is left where it was
len1_NoAdvance(t, kind) ==
    [err |-> 0, token |-> [Kind |-> kind, Len |-> 1], t |-> t]

len1(t, kind) ==
    [err |-> 0, token |-> [Kind |-> kind, Len |-> 1],
     t |-> [src |-> SubSeq(t.src, 2, Len(t.src)), offset |-> t.offset + 1]]

RECURSIVE spaceLen(_)
\* the bytes nextSpace consumes from src, which is not empty
spaceLen_rest(src, step) ==
    IF step = 0 THEN 0
    ELSE IF Len(src) = step THEN step
    ELSE step + spaceLen(SubSeq(src, step + 1, Len(src)))

spaceLen_rune(d) ==
    IF d.r = 160 THEN d.len ELSE 0

spaceLen(src) ==
    IF src[1] = 32 \/ src[1] = 9 THEN spaceLen_rest(src, 1) ELSE spaceLen_rest(src, spaceLen_rune(DecodeRune(src)))

nextSpace(t) == lexToken(t, "SPACE", spaceLen(t.src))

notLineEnd == (0..255) \ {10, 13}

nextComment(t) == lexToken(t, "COMMENT", prefixLen(t.src, notLineEnd))

\* the bytes the digit loops of nextNumLit step over, whatever the base
numChar == {c \in 0..255 : isDigit(c) \/ c = 95 \/ isLetter(c)}

nextNumLit_badChar(kind, c) ==
    CASE kind \in {"INT_LIT", "DEC_INT_LIT"} -> isLetter(c)
      [] kind = "HEX_INT_LIT" -> (c >= 71 /\ c <= 90) \/ (c >= 103 /\ c <= 122)
      [] kind = "OCT_INT_LIT" -> c = 56 \/ c = 57 \/ isLetter(c)
      [] kind = "BIN_INT_LIT" -> (c >= 50 /\ c <= 57) \/ isLetter(c) \/ c = 95

\* after the digit loop has kept n bytes of numSrc
nextNumLit_scanned(t, kind, invalid, tokenLen, numSrc, n) ==
    IF n = 0 THEN lexError(t, 1005)
    ELSE IF tokenLen + n = 1 /\ numSrc[1] = 48 THEN lexToken(t, kind, 1)
    ELSE IF invalid \/ \E i \in 1..n : nextNumLit_badChar(kind, numSrc[i])
    THEN lexError(t, 1005)
    ELSE lexToken(t, kind, tokenLen + n)

nextNumLit_digits(t, kind, invalid, tokenLen, numSrc) ==
    nextNumLit_scanned(t, kind, invalid, tokenLen, numSrc, prefixLen(numSrc, numChar))

nextNumLit_baseKind(base) ==
    CASE base = 98 -> "BIN_INT_LIT"
      [] base = 111 -> "OCT_INT_LIT"
      [] base = 100 -> "DEC_INT_LIT"
      [] base = 120 -> "HEX_INT_LIT"
      [] OTHER -> "INT_LIT"

\* a leading 0 with more after it: a base prefix, or invalid
nextNumLit_based(t, kind, tokenLen, numSrc) ==
    IF kind = "INT_LIT" THEN nextNumLit_digits(t, kind, TRUE, tokenLen, numSrc)
    ELSE nextNumLit_digits(t, kind, FALSE, tokenLen + 2, SubSeq(numSrc, 3, Len(numSrc)))

nextNumLit_unsigned(t, neg, tokenLen, numSrc) ==
    IF numSrc[1] # 48 THEN nextNumLit_digits(t, "INT_LIT", FALSE, tokenLen, numSrc)
    ELSE IF Len(numSrc) > 1 THEN nextNumLit_based(t, nextNumLit_baseKind(numSrc[2]), tokenLen, numSrc)
    ELSE IF neg THEN lexError(t, 1005)
    ELSE len1(t, "INT_LIT")

nextNumLit(t) ==
    IF t.src[1] # 45 THEN nextNumLit_unsigned(t, FALSE, 0, t.src)
    ELSE IF Len(t.src) = 1 THEN lexError(t, 1005)
    ELSE nextNumLit_unsigned(t, TRUE, 1, Tail(t.src))

RECURSIVE textLitScan(_, _, _)
\* the loop of nextTextLit from index ii (0-based): code 0 and the length of
\* the literal, or the code of the error
textLitScan(src, ii, escaped) ==
    IF ii >= Len(src) THEN [code |-> 1006, len |-> 0]
    ELSE LET c == src[ii + 1]
         IN  IF escaped THEN textLitScan(src, ii + 1, FALSE)
             ELSE IF c = 34 THEN [code |-> 0, len |-> ii + 1]
             ELSE IF (c <= 31 \/ c = 127) /\ c # 9
             THEN [code |-> IF c = 10 THEN 1007
                            ELSE IF c = 13 /\ ii + 1 < Len(src) /\ src[ii + 2] = 10
                            THEN 1007
                            ELSE 1003,
                   len |-> 0]
             ELSE textLitScan(src, ii + 1, c = 92)

nextTextLit_on(t, scan) ==
    IF scan.code # 0 THEN lexError(t, scan.code)
    ELSE lexToken(t, "TEXT_LIT", scan.len)

nextTextLit(t) ==
    nextTextLit_on(t, textLitScan(t.src, 1, FALSE))

RECURSIVE identScan(_, _, _, _)
\* the loop of nextIdent from index ii (0-based)
identScan(src, ii, underscore, invalid) ==
    IF ii >= Len(src) THEN [len |-> ii, bad |-> underscore \/ invalid]
    ELSE LET c == src[ii + 1]
         IN  IF c = 95 THEN identScan(src, ii + 1, TRUE, invalid \/ underscore)
             ELSE IF isLetter(c) \/ isDigit(c)
             THEN identScan(src, ii + 1, FALSE, invalid)
             ELSE [len |-> ii, bad |-> underscore \/ invalid]

nextIdent_on(t, scan) ==
    IF scan.bad THEN lexError(t, 1008)
    ELSE lexToken(t, "IDENT", scan.len)

nextIdent(t) ==
    nextIdent_on(t, identScan(t.src, 1, FALSE, FALSE))

Sigils ==
    [c \in {64, 58, 46, 61, 123, 125, 40, 41, 91, 93} |->
        CASE c = 64 -> "AT" [] c = 58 -> "COLON" [] c = 46 -> "DOT"
          [] c = 61 -> "EQ" [] c = 123 -> "OPEN_CURL" [] c = 125 -> "CLOSE_CURL"
          [] c = 40 -> "OPEN_PAREN" [] c = 41 -> "CLOSE_PAREN"
          [] c = 91 -> "OPEN_SQUARE" [] c = 93 -> "CLOSE_SQUARE"]

\* the two-byte newline: the recorded length is 1, the lexer advances by 2
crlfToken_Len1(t) ==
    [err |-> 0, token |-> [Kind |-> "NEWLINE", Len |-> 1],
     t |-> [src |-> SubSeq(t.src, 3, Len(t.src)), offset |-> t.offset + 2]]

crlfToken(t) ==
    [err |-> 0, token |-> [Kind |-> "NEWLINE", Len |-> 2],
     t |-> [src |-> SubSeq(t.src, 3, Len(t.src)), offset |-> t.offset + 2]]

Tokens_Next_big(t, c, r) ==
    IF isDigit(c) \/ c = 45 THEN nextNumLit(t)
    ELSE IF isLetter(c) THEN nextIdent(t)
    ELSE IF r = 160 THEN nextSpace(t)
    ELSE IF r < 32 \/ r = 127 THEN lexError(t, 1003)
    ELSE lexError(t, 1002)

Tokens_Next_first(t, c) ==
    CASE c = 9 \/ c = 32 -> nextSpace(t)
      [] c = 10 -> len1(t, "NEWLINE")
      [] c \in DOMAIN Sigils -> len1(t, Sigils[c])
      [] c = 35 -> nextComment(t)
      [] c = 34 -> nextTextLit(t)
      [] c = 13 -> IF Len(t.src) < 2 \/ t.src[2] # 10
                   THEN lexError(t, 1003)
                   ELSE crlfToken(t)
      [] OTHER -> Tokens_Next_big(t, c, DecodeRune(t.src).r)

Tokens_Next(t) ==
    IF Len(t.src) = 0 THEN [err |-> 0, token |-> [Kind |-> "EOF", Len |-> 0], t |-> t]
    ELSE Tokens_Next_first(t, t.src[1])

NewTokens(src) == [src |-> src, offset |-> 0]

----------------------------------------------------------------------------
(* Lexing scenario (tokens_test.go, testExpectOK): the caller keeps its own *)
(* cursor into the input, cuts each token's bytes off it by the token's     *)
(* Len, and stops at EOF or at the first error.                             *)

MaxRunes == 4

\* space, NBSP, LF, CR, '#', '"', '\', '0', 'b', '_', '-', '@', SOH, e-acute
Runes ==
    {<<32>>, <<194, 160>>, <<10>>, <<13>>, <<35>>, <<34>>, <<92>>, <<48>>,
     <<98>>, <<95>>, <<45>>, <<64>>, <<1>>, <<195, 169>>}

InitLex ==
    /\ phase = "lex"
    /\ buf = <<>>
    /\ origin = <<>>
    /\ accepted = "none"
    /\ rd = NoRead
    /\ bld = NoBuilder
    /\ \E n \in 0..MaxRunes : \E f \in [1..n -> Runes] :
          LET src == Concat(f)
          IN  lex = [input |-> src, t |-> NewTokens(src), rest |-> src,
                     total |-> 0, out |-> <<>>, kinds |-> <<>>, st |-> "run",
                     err |-> 0]
    /\ prs = Idle
    /\ cmp = Idle

\* one iteration of the loop of testExpectOK
LexStep ==
    /\ phase = "lex"
    /\ lex.st = "run"
    /\ LET res == Tokens_Next(lex.t)
       IN  lex' = IF res.err # 0
                  THEN [lex EXCEPT !.st = "err", !.err = res.err]
                  ELSE IF res.token.Kind = "EOF"
                  THEN [lex EXCEPT !.st = "eof"]
                  ELSE [lex EXCEPT
                          !.t = res.t,
                          !.out = @ \o SubSeq(lex.rest, 1, res.token.Len),
                          !.rest = SubSeq(@, res.token.Len + 1, Len(@)),
                          !.total = @ + res.token.Len,
                          !.kinds = Append(@, res.token.Kind)]
    /\ UNCHANGED <<phase, buf, origin, accepted, rd, bld, prs, cmp>>

NextLex == LexStep

SpecLex == InitLex /\ [][NextLex]_vars

\* C6: on every input the lexer takes to EOF without an error, the token
\* lengths sum to the length of the input and the bytes of the tokens,
\* concatenated in order, are the input.
C6_LexRoundTrip ==
    (phase = "lex" /\ lex.st = "eof") =>
        /\ lex.total = Len(lex.input)
        /\ lex.out = lex.input

\* an input with a two-byte space, a two-byte newline and a literal has been
\* taken to EOF
C6_LexedToEOF ==
    /\ phase = "lex"
    /\ lex.st = "eof"
    /\ lex.kinds = <<"SPACE", "NEWLINE", "INT_LIT">>
    /\ lex.input = <<194, 160, 13, 10, 48>>

----------------------------------------------------------------------------
(* package syntax: the parser.  A parseCtx is a record of the fields of the *)
(* Go struct; every method is an operator from the parseCtx before the call *)
(* to the parseCtx after it.  The Tokens value is shared by a parseCtx and  *)
(* its children, so parseChild hands the child's Tokens back to the parent  *)
(* on every path.  Two fields record what the run has observed: lexErr is   *)
(* the first error Tokens.Next returned, over the number of bytes by which  *)
(* a readToken reached beyond len(src).  Errors are their codes.            *)

Nil == <<>>

zeroToken == [Kind |-> "EOF", Len |-> 0]

IntKinds == {"INT_LIT", "BIN_INT_LIT", "OCT_INT_LIT", "DEC_INT_LIT", "HEX_INT_LIT"}

kwNamespace == <<110, 97, 109, 101, 115, 112, 97, 99, 101>>

kwImport == <<105, 109, 112, 111, 114, 116>>

kwExport == <<101, 120, 112, 111, 114, 116>>

kwOptions == <<111, 112, 116, 105, 111, 110, 115>>

kwAs == <<97, 115>>

kwConst == <<99, 111, 110, 115, 116>>

\* enum, struct, message, union, protocol
OtherDeclKeywords ==
    [Enum |-> <<101, 110, 117, 109>>, Struct |-> <<115, 116, 114, 117, 99, 116>>, Message |-> <<109, 101, 115, 115, 97, 103, 101>>,
     Union |-> <<117, 110, 105, 111, 110>>, Protocol |-> <<112, 114, 111, 116, 111, 99, 111, 108>>]

\* utf8.Valid on sequences of one- and two-byte forms
RECURSIVE utf8Valid(_)
utf8Valid(src) ==
    IF Len(src) = 0 THEN TRUE
    ELSE IF src[1] < 128 THEN utf8Valid(Tail(src))
    ELSE IF src[1] >= 194 /\ src[1] <= 223 /\ Len(src) >= 2
            /\ src[2] >= 128 /\ src[2] <= 191
    THEN utf8Valid(SubSeq(src, 3, Len(src)))
    ELSE FALSE

newParseCtx(src) ==
    [src |-> src, tokens |-> NewTokens(src), childNodes |-> <<>>,
     haveToken |-> FALSE, token |-> zeroToken, err |-> 0, consumed |-> 0,
     offset |-> 0, lexErr |-> 0, over |-> 0]

ensureToken(ctx) ==
    LET got(res) ==
            IF res.err # 0
            THEN [ctx EXCEPT !.err = res.err,
                             !.lexErr = IF @ = 0 THEN res.err ELSE @]
            ELSE [ctx EXCEPT !.token = res.token, !.tokens = res.t,
                             !.haveToken = TRUE]
    IN  IF ctx.err # 0 THEN ctx
        ELSE IF ctx.haveToken THEN ctx
        ELSE got(Tokens_Next(ctx.tokens))

readToken(ctx) == SubSeq(ctx.src, 1, ctx.token.Len)

consumeToken(ctx, child) ==
    [ctx EXCEPT !.src = SubSeq(@, ctx.token.Len + 1, Len(@)),
                !.consumed = @ + ctx.token.Len,
                !.offset = @ + ctx.token.Len,
                !.haveToken = FALSE,
                !.childNodes = Append(@, child)]

\* the error a function builds from readToken(): the slice ctx.src[:Len]
\* reaches beyond len(ctx.src) when the token is a stale one
errFromToken(ctx, code) ==
    [ctx |-> [ctx EXCEPT !.over = IF ctx.token.Len > Len(ctx.src)
                                  THEN ctx.token.Len - Len(ctx.src) ELSE @],
     node |-> Nil, err |-> code]

returnNil(ctx, code) == [ctx |-> ctx, node |-> Nil, err |-> code]

leafNode(kind, raw, start) == [kind |-> kind, leaf |-> TRUE, raw |-> raw, start |-> start]

finish(ctx, kind) ==
    IF ctx.err # 0 THEN returnNil(ctx, ctx.err)
    ELSE [ctx |-> ctx,
          node |-> [kind |-> kind, leaf |-> FALSE,
                    span |-> [start |-> ctx.offset - ctx.consumed,
                              len |-> ctx.consumed],
                    childNodes |-> ctx.childNodes],
          err |-> 0]

consumeSpace(ctx) == consumeToken(ctx, leafNode("Space", readToken(ctx), ctx.offset))

space_on(c) ==
    IF c.err # 0 THEN c
    ELSE IF c.token.Kind # "SPACE" THEN c
    ELSE consumeSpace(c)

space(ctx) ==
    space_on(ensureToken(ctx))

SigilCodes ==
    [AT |-> 2000, COLON |-> 2001, DOT |-> 2002, EQ |-> 2003, OPEN_CURL |-> 2004,
     CLOSE_CURL |-> 2005, OPEN_PAREN |-> 2006, CLOSE_PAREN |-> 2007,
     OPEN_SQUARE |-> 2008, CLOSE_SQUARE |-> 2009]

sigil_on(kind, c) ==
    IF c.err # 0 THEN c
    ELSE IF c.token.Kind # kind THEN [c EXCEPT !.err = SigilCodes[kind]]
    ELSE consumeToken(c, leafNode("Sigil", c.src[1], c.offset))

sigil(ctx, kind) ==
    sigil_on(kind, ensureToken(ctx))

trySigil_on(kind, c) ==
    IF c.err # 0 THEN [ctx |-> c, ok |-> FALSE]
    ELSE IF c.token.Kind # kind THEN [ctx |-> c, ok |-> FALSE]
    ELSE [ctx |-> consumeToken(c, leafNode("Sigil", c.src[1], c.offset)),
          ok |-> TRUE]

trySigil(ctx, kind) ==
    trySigil_on(kind, ensureToken(ctx))

tryKeyword_on(keyword, c) ==
    IF c.err # 0 THEN [ctx |-> c, ok |-> FALSE]
    ELSE IF c.token.Kind # "IDENT" THEN [ctx |-> c, ok |-> FALSE]
    ELSE IF readToken(c) # keyword THEN [ctx |-> c, ok |-> FALSE]
    ELSE [ctx |-> consumeToken(c, leafNode("Keyword", keyword, c.offset)),
          ok |-> TRUE]

tryKeyword(ctx, keyword) ==
    tryKeyword_on(keyword, ensureToken(ctx))

ident_on(c) ==
    IF c.err # 0 THEN c
    ELSE IF c.token.Kind # "IDENT" THEN [c EXCEPT !.err = 2012]
    ELSE consumeToken(c, leafNode("Ident", readToken(c), c.offset))

ident(ctx) ==
    ident_on(ensureToken(ctx))

\* A uint64 is kept as four 16-bit limbs, least significant first, so that
\* every 64-bit value is exact.
U64(n) == <<n % W16, n \div W16, 0, 0>>

U64_max == <<65535, 65535, 65535, 65535>>

\* a <= b
U64_le(a, b) ==
    \/ a[4] < b[4]
    \/ a[4] = b[4] /\ a[3] < b[3]
    \/ a[4] = b[4] /\ a[3] = b[3] /\ a[2] < b[2]
    \/ a[4] = b[4] /\ a[3] = b[3] /\ a[2] = b[2] /\ a[1] <= b[1]

\* v * base + d, with the carry out of bit 63
U64_mulAdd(v, base, d) ==
    LET c1 == v[1] * base + d
        c2 == v[2] * base + (c1 \div W16)
        c3 == v[3] * base + (c2 \div W16)
        c4 == v[4] * base + (c3 \div W16)
    IN  [value |-> <<c1 % W16, c2 % W16, c3 % W16, c4 % W16>>,
         carry |-> c4 \div W16]

\* uint64(-int64(v)): the two's complement
U64_neg(v) ==
    LET c1 == (65535 - v[1]) + 1
        c2 == (65535 - v[2]) + (c1 \div W16)
        c3 == (65535 - v[3]) + (c2 \div W16)
        c4 == (65535 - v[4]) + (c3 \div W16)
    IN  <<c1 % W16, c2 % W16, c3 % W16, c4 % W16>>

\* the first width bytes of binary.LittleEndian.PutUint64
U64_bytes(v, width) ==
    SubSeq(<<v[1] % 256, v[1] \div 256, v[2] % 256, v[2] \div 256,
             v[3] % 256, v[3] \div 256, v[4] % 256, v[4] \div 256>>, 1, width)

\* the value strconv gives a digit byte; 36 for a byte that is none (an
\* underscore is none when the base is not 0)
strconv_digit(c) ==
    IF c >= 48 /\ c <= 57 THEN c - 48
    ELSE IF c >= 97 /\ c <= 122 THEN c - 87
    ELSE IF c >= 65 /\ c <= 90 THEN c - 55
    ELSE 36

\* the loop of strconv.ParseUint(s, base, 64) from byte i with n so far
RECURSIVE strconv_ParseUint_from(_, _, _, _)
strconv_ParseUint_from(s, base, i, n) ==
    IF i > Len(s) THEN [ok |-> TRUE, value |-> n]
    ELSE IF strconv_digit(s[i]) >= base THEN [ok |-> FALSE, value |-> U64(0)]
    ELSE IF U64_mulAdd(n, base, strconv_digit(s[i])).carry # 0
    THEN [ok |-> FALSE, value |-> U64_max]
    ELSE strconv_ParseUint_from(s, base, i + 1,
                                U64_mulAdd(n, base, strconv_digit(s[i])).value)

\* strconv.ParseUint(s, base, 64) with a base that is not 0: a syntax error
\* for the empty string and for a byte that is no digit of the base, a range
\* error for a value above 2^64 - 1
strconv_ParseUint(s, base) ==
    IF Len(s) = 0 THEN [ok |-> FALSE, value |-> U64(0)]
    ELSE strconv_ParseUint_from(s, base, 1, U64(0))

newIntLit_unsigned(token) ==
    IF token[1] = 45 THEN Tail(token) ELSE token

newIntLit_valueStr(token, kind) ==
    IF kind = "INT_LIT" THEN newIntLit_unsigned(token)
    ELSE SubSeq(newIntLit_unsigned(token), 3, Len(newIntLit_unsigned(token)))

newIntLit_base(kind) ==
    IF kind = "BIN_INT_LIT" THEN 2
    ELSE IF kind = "OCT_INT_LIT" THEN 8
    ELSE IF kind = "HEX_INT_LIT" THEN 16
    ELSE 10

\* uint64(math.MaxInt64) + 1
U64_minInt64 == <<0, 0, 0, 32768>>

\* the value of newIntLit: the code of the error, or 0 and IntLit.value
newIntLit_signed(token, parsed) ==
    IF ~parsed.ok THEN [err |-> 2022, value |-> U64(0)]
    ELSE IF token[1] # 45 THEN [err |-> 0, value |-> parsed.value]
    ELSE IF ~U64_le(parsed.value, U64_minInt64) THEN [err |-> 2023, value |-> U64(0)]
    ELSE [err |-> 0, value |-> U64_neg(parsed.value)]

newIntLit_value(token, kind) ==
    newIntLit_signed(token, strconv_ParseUint(newIntLit_valueStr(token, kind),
                                              newIntLit_base(kind)))

\* the parse tree keeps the literal's bytes; IntLit.value is computed from
\* them again where the compiler reads it
newIntLit(token, kind, start) ==
    IF newIntLit_value(token, kind).err # 0
    THEN [node |-> Nil, err |-> newIntLit_value(token, kind).err]
    ELSE [node |-> leafNode("IntLit", token, start), err |-> 0]

isHexDigit(c) == isDigit(c) \/ (c >= 65 /\ c <= 70) \/ (c >= 97 /\ c <= 102)

hexDigit(c) == IF isDigit(c) THEN c - 48 ELSE IF c >= 97 THEN c - 87 ELSE c - 55

RECURSIVE hexValue(_)
hexValue(hex) ==
    IF Len(hex) = 0 THEN 0
    ELSE hexValue(SubSeq(hex, 1, Len(hex) - 1)) * 16 + hexDigit(hex[Len(hex)])

RECURSIVE textLitValid(_, _)
\* the loop of newTextLit over value: TRUE when no escape is invalid
textLitValid(value, escaped) ==
    IF Len(value) = 0 THEN ~escaped
    ELSE LET c == value[1]
             rest == Tail(value)
         IN  IF ~escaped THEN textLitValid(rest, c = 92)
             ELSE CASE c \in {34, 92, 110, 116} -> textLitValid(rest, FALSE)
                    [] c = 120 ->
                         /\ Len(value) >= 3
                         /\ isHexDigit(value[2]) /\ isHexDigit(value[3])
                         /\ textLitValid(SubSeq(value, 4, Len(value)), FALSE)
                    [] c = 117 ->
                         /\ Len(rest) > 0 /\ rest[1] = 123
                         /\ \E e \in 2..Len(rest) :
                              /\ rest[e] = 125
                              /\ \A j \in 2..(e - 1) : rest[j] # 125
                              /\ LET hex == SubSeq(rest, 2, e - 1)
                                 IN  /\ Len(hex) > 0 /\ Len(hex) <= 6
                                     /\ \A j \in 1..Len(hex) : isHexDigit(hex[j])
                                     /\ hexValue(hex) <= 1114111
                              /\ textLitValid(SubSeq(rest, e + 1, Len(rest)), FALSE)
                    [] OTHER -> FALSE

\* nextTextLit sets hasEscapes at the closing quote of every literal, so the
\* flag tokenFlagTextHasNoEscapes is never set and the escapes are always read
newTextLit(token, start) ==
    IF textLitValid(SubSeq(token, 2, Len(token) - 1), FALSE)
    THEN [node |-> leafNode("TextLit", token, start), err |-> 0]
    ELSE [node |-> Nil, err |-> 2024]

int_made(c, lit) ==
    IF lit.err # 0 THEN [c EXCEPT !.err = lit.err]
    ELSE consumeToken(c, lit.node)

int_on(c) ==
    IF c.err # 0 THEN c
    ELSE IF c.token.Kind \notin IntKinds THEN [c EXCEPT !.err = 2010]
    ELSE int_made(c, newIntLit(readToken(c), c.token.Kind, c.offset))

int(ctx) ==
    int_on(ensureToken(ctx))

text_made(c, lit) ==
    IF lit.err # 0 THEN [c EXCEPT !.err = lit.err]
    ELSE consumeToken(c, lit.node)

text_on(c) ==
    IF c.err # 0 THEN c
    ELSE IF c.token.Kind # "TEXT_LIT" THEN [c EXCEPT !.err = 2011]
    ELSE text_made(c, newTextLit(readToken(c), c.offset))

text(ctx) ==
    text_on(ensureToken(ctx))

suffixComment(ctx) == ctx

\* the two-byte newline is kept as a one-byte one
newlineNode_LF(ctx) ==
    [kind |-> "Newline", leaf |-> TRUE, crlf |-> FALSE, start |-> ctx.offset]

newlineNode(ctx) ==
    [kind |-> "Newline", leaf |-> TRUE, crlf |-> ctx.token.Len = 2, start |-> ctx.offset]

\* one pass of the loop of comments(): stop is TRUE when the body returns
commentsBody_on(c) ==
    IF c.err # 0 THEN [ctx |-> c, stop |-> TRUE]
    ELSE CASE c.token.Kind = "SPACE" -> [ctx |-> consumeSpace(c), stop |-> FALSE]
           [] c.token.Kind = "NEWLINE" ->
                [ctx |-> consumeToken(c, newlineNode(c)), stop |-> FALSE]
           [] c.token.Kind = "COMMENT" ->
                [ctx |-> consumeToken(c, leafNode("Comment", readToken(c),
                                                  c.offset)),
                 stop |-> FALSE]
           [] OTHER -> [ctx |-> c, stop |-> TRUE]

commentsBody(ctx) ==
    commentsBody_on(ensureToken(ctx))

\* ctx.loop after a pass of its body that took ctx to r.ctx: the loop ends
\* when the body broke out or returned, on an error, and when the pass
\* consumed nothing
loopEnds(ctx, r) == r.stop \/ r.ctx.err # 0 \/ r.ctx.consumed = ctx.consumed

RECURSIVE comments(_)
comments_next(ctx, r) ==
    IF loopEnds(ctx, r) THEN r.ctx ELSE comments(r.ctx)

comments(ctx) ==
    IF ctx.err # 0 THEN ctx ELSE comments_next(ctx, commentsBody(ctx))

\* the parseCtx parseChild makes for the child
childCtx(ctx) == [ctx EXCEPT !.childNodes = <<>>, !.err = 0, !.consumed = 0]

\* parseChild, r being what parseChildFn returned on childCtx(ctx)
parseChild_shared(ctx, r) ==
    [ctx EXCEPT !.tokens = r.ctx.tokens,
                !.lexErr = r.ctx.lexErr, !.over = r.ctx.over]

parseChild_back(ctx, r) ==
    [parseChild_shared(ctx, r) EXCEPT !.haveToken = r.ctx.haveToken,
                   !.token = r.ctx.token]

parseChild(ctx, r) ==
    IF ctx.err # 0 THEN [ctx |-> ctx, ok |-> FALSE]
    ELSE IF r.err # 0 THEN [ctx |-> [parseChild_shared(ctx, r) EXCEPT !.err = r.err], ok |-> FALSE]
         ELSE IF r.ctx.consumed = 0 THEN [ctx |-> parseChild_back(ctx, r), ok |-> FALSE]
         ELSE [ctx |-> [parseChild_back(ctx, r) EXCEPT
                          !.src = SubSeq(@, r.ctx.consumed + 1, Len(@)),
                          !.consumed = @ + r.ctx.consumed,
                          !.offset = r.ctx.offset,
                          !.childNodes = Append(@, r.node)],
               ok |-> TRUE]

parseNamespace_on(k) ==
    IF ~k.ok THEN errFromToken(k.ctx, 2014)
    ELSE finish(suffixComment(text(space(k.ctx))), "Namespace")

parseNamespace(ctx) ==
    parseNamespace_on(tryKeyword(ctx, kwNamespace))

RECURSIVE importNames(_)
\* the loop over the names of an import
importNames_next(ctx, r) ==
    IF loopEnds(ctx, r) THEN r.ctx ELSE importNames(r.ctx)

importNames_body(s) ==
    IF s.ok THEN [ctx |-> s.ctx, stop |-> TRUE]
    ELSE [ctx |-> comments(suffixComment(ident(s.ctx))),
          stop |-> FALSE]

importNames(ctx) ==
    IF ctx.err # 0 THEN ctx ELSE importNames_next(ctx, importNames_body(trySigil(ctx, "CLOSE_CURL")))

parseImport_names(a) ==
    IF a.ok THEN finish(suffixComment(ident(space(a.ctx))), "Import")
    ELSE finish(suffixComment(importNames(comments(sigil(a.ctx,
                                                         "OPEN_CURL")))),
                "Import")

parseImport_on(k) ==
    IF ~k.ok THEN returnNil(k.ctx, 0)
    ELSE parseImport_names(tryKeyword(space(text(space(k.ctx))), kwAs))

parseImport(ctx) ==
    parseImport_on(tryKeyword(ctx, kwImport))

\* parseTypeName, parseValueName and parseExportName differ in the code of
\* their error and in the node they build
parseScopedName_scoped(kind, d) ==
    finish(IF d.ok THEN ident(d.ctx) ELSE d.ctx, kind)

parseScopedName_on(code, kind, c) ==
    IF c.err # 0 THEN returnNil(c, c.err)
    ELSE IF c.token.Kind # "IDENT" THEN errFromToken(c, code)
    ELSE parseScopedName_scoped(kind, trySigil(ident(c), "DOT"))

parseScopedName(ctx, code, kind) ==
    parseScopedName_on(code, kind, ensureToken(ctx))

parseTypeName(ctx) == parseScopedName(ctx, 2018, "TypeName")

parseValueName(ctx) == parseScopedName(ctx, 2026, "ValueName")

parseExportName(ctx) == parseScopedName(ctx, 2027, "ExportName")

RECURSIVE exportNames(_)
\* the loop over the names of an export
exportNames_next(ctx, r) ==
    IF loopEnds(ctx, r) THEN r.ctx ELSE exportNames(r.ctx)

exportNames_body(s) ==
    IF s.ok THEN [ctx |-> s.ctx, stop |-> TRUE]
    ELSE [ctx |-> comments(suffixComment(
                      parseChild(s.ctx, parseExportName(childCtx(s.ctx))).ctx)),
          stop |-> FALSE]

exportNames(ctx) ==
    IF ctx.err # 0 THEN ctx ELSE exportNames_next(ctx, exportNames_body(trySigil(ctx, "CLOSE_CURL")))

parseExport_as(a) ==
    IF ~a.ok THEN errFromToken(a.ctx, 2013)
    ELSE finish(suffixComment(ident(space(a.ctx))), "Export")

parseExport_names(c) ==
    IF c.err # 0 THEN returnNil(c, c.err)
    ELSE IF c.token.Kind = "IDENT"
    THEN parseExport_as(tryKeyword(space(parseChild(c, parseExportName(childCtx(c))).ctx),
                       kwAs))
    ELSE finish(suffixComment(exportNames(comments(sigil(c, "OPEN_CURL")))),
                "Export")

parseExport_on(k) ==
    IF ~k.ok THEN returnNil(k.ctx, 0)
    ELSE parseExport_names(ensureToken(space(k.ctx)))

parseExport(ctx) ==
    parseExport_on(tryKeyword(ctx, kwExport))

parseEnumRef(ctx) == finish(ident(sigil(ctx, "DOT")), "EnumRef")

\* nil is TRUE when parseValue returns no node
parseValue_lit(i) ==
    [ctx |-> i, nil |-> i.err # 0]

parseValue_child(p) ==
    [ctx |-> p.ctx, nil |-> ~p.ok]

parseValue_on(c) ==
    IF c.err # 0 THEN [ctx |-> c, nil |-> TRUE]
    ELSE CASE c.token.Kind \in IntKinds -> parseValue_lit(int(c))
           [] c.token.Kind = "TEXT_LIT" -> parseValue_lit(text(c))
           [] c.token.Kind = "DOT" ->
                parseValue_child(parseChild(c, parseEnumRef(childCtx(c))))
           [] c.token.Kind = "IDENT" ->
                parseValue_child(parseChild(c, parseValueName(childCtx(c))))
           [] OTHER -> [ctx |-> c, nil |-> TRUE]

parseValue(ctx) ==
    parseValue_on(ensureToken(ctx))

\* parseConstValue (code 2019) and parseOptionValue (code 2021)
parseValueOr_on(code, v) ==
    IF v.nil /\ v.ctx.err = 0
    THEN [errFromToken(v.ctx, code).ctx EXCEPT !.err = code]
    ELSE v.ctx

parseValueOr(ctx, code) ==
    parseValueOr_on(code, parseValue(ctx))

parseConstValue(ctx) == parseValueOr(ctx, 2019)

parseOptionValue(ctx) == parseValueOr(ctx, 2021)

RECURSIVE optionNameParts(_)
\* the loop of parseOptionName over ".ident"
optionNameParts_next(ctx, r) ==
    IF loopEnds(ctx, r) THEN r.ctx ELSE optionNameParts(r.ctx)

optionNameParts_body(d) ==
    IF d.ok THEN [ctx |-> ident(d.ctx), stop |-> FALSE]
    ELSE [ctx |-> d.ctx, stop |-> TRUE]

optionNameParts(ctx) ==
    IF ctx.err # 0 THEN ctx ELSE optionNameParts_next(ctx, optionNameParts_body(trySigil(ctx, "DOT")))

parseOptionName_on(c) ==
    IF c.err # 0 THEN returnNil(c, c.err)
    ELSE IF c.token.Kind # "IDENT" THEN errFromToken(c, 2020)
    ELSE finish(optionNameParts(ident(c)), "OptionName")

parseOptionName(ctx) ==
    parseOptionName_on(ensureToken(ctx))

parseOptionsOption(ctx) ==
    finish(parseOptionValue(space(sigil(space(
               parseChild(ctx, parseOptionName(childCtx(ctx))).ctx), "EQ"))),
           "OptionsOption")

RECURSIVE optionsOptions(_)
\* the loop of parseOptions over its options
optionsOptions_next(ctx, r) ==
    IF loopEnds(ctx, r) THEN r.ctx ELSE optionsOptions(r.ctx)

optionsOptions_body(s) ==
    IF s.ok THEN [ctx |-> s.ctx, stop |-> TRUE]
    ELSE [ctx |-> comments(suffixComment(
                      parseChild(s.ctx,
                                 parseOptionsOption(childCtx(s.ctx))).ctx)),
          stop |-> FALSE]

optionsOptions(ctx) ==
    IF ctx.err # 0 THEN ctx ELSE optionsOptions_next(ctx, optionsOptions_body(trySigil(ctx, "CLOSE_CURL")))

parseOptions_typed(t) ==
    space(parseChild(t, parseTypeName(childCtx(t))).ctx)

parseOptions_schema(s) ==
    IF s.ok THEN parseOptions_typed(space(s.ctx)) ELSE s.ctx

parseOptions_on(k) ==
    IF ~k.ok THEN returnNil(k.ctx, 0)
    ELSE finish(optionsOptions(comments(sigil(
                    parseOptions_schema(trySigil(space(k.ctx), "COLON")), "OPEN_CURL"))),
                "Options")

parseOptions(ctx) ==
    parseOptions_on(tryKeyword(ctx, kwOptions))

parseOption_value(e) ==
    IF e.ok THEN parseOptionValue(space(e.ctx)) ELSE e.ctx

parseOption_name(n) ==
    parseChild(n, parseOptionName(childCtx(n))).ctx

parseOption_on(s) ==
    IF ~s.ok THEN returnNil(s.ctx, 0)
    ELSE finish(sigil(space(parseOption_value(trySigil(space(parseOption_name(space(s.ctx))), "EQ"))),
                      "CLOSE_CURL"),
                "Option")

parseOption(ctx) ==
    parseOption_on(trySigil(ctx, "OPEN_CURL"))

parseDecorator_done(p) ==
    IF p.ctx.err # 0 THEN returnNil(p.ctx, p.ctx.err)
    ELSE IF ~p.ok THEN errFromToken(p.ctx, 2017)
    ELSE finish(p.ctx, "Decorator")

parseDecorator_option(p) ==
    IF ~p.ok /\ p.ctx.err = 0
    THEN parseChild(p.ctx, parseOption(childCtx(p.ctx)))
    ELSE p

parseDecorator_on(s) ==
    IF ~s.ok THEN returnNil(s.ctx, 0)
    ELSE parseDecorator_done(parseDecorator_option(parseChild(s.ctx, parseOptions(childCtx(s.ctx)))))

parseDecorator(ctx) ==
    parseDecorator_on(trySigil(ctx, "AT"))

RECURSIVE parseDecorators(_)
parseDecorators_next(ctx, r) ==
    IF loopEnds(ctx, r) THEN r.ctx ELSE parseDecorators(r.ctx)

parseDecorators_body(p) ==
    [ctx |-> IF p.ok THEN comments(p.ctx) ELSE p.ctx, stop |-> FALSE]

parseDecorators(ctx) ==
    IF ctx.err # 0 THEN ctx
    ELSE parseDecorators_next(ctx, parseDecorators_body(parseChild(ctx, parseDecorator(childCtx(ctx)))))

parseConst_typed(c) ==
    parseChild(c, parseTypeName(childCtx(c))).ctx

parseConst_on(k) ==
    IF ~k.ok THEN returnNil(k.ctx, 0)
    ELSE finish(parseConstValue(space(sigil(space(parseConst_typed(space(sigil(space(
                    ident(space(k.ctx))), "COLON")))), "EQ"))),
                "Const")

parseConst(ctx) ==
    parseConst_on(tryKeyword(ctx, kwConst))

\* parseEnum, parseStruct, parseMessage, parseUnion and parseProtocol up to
\* their first return: without their keyword they return nil.  What follows
\* the keyword is not modelled; err 9000 marks a source that gets there.
parseOtherDecl_on(k) ==
    IF ~k.ok THEN returnNil(k.ctx, 0) ELSE returnNil(k.ctx, 9000)

parseOtherDecl(ctx, fn) ==
    parseOtherDecl_on(tryKeyword(ctx, OtherDeclKeywords[fn]))

RECURSIVE schemaImports(_)
\* the loop of parseSchema over the imports
schemaImports_next(ctx, r) ==
    IF loopEnds(ctx, r) THEN r.ctx ELSE schemaImports(r.ctx)

schemaImports_body(c) ==
    [ctx |-> parseChild(c, parseImport(childCtx(c))).ctx,
     stop |-> FALSE]

schemaImports(ctx) ==
    IF ctx.err # 0 THEN ctx ELSE schemaImports_next(ctx, schemaImports_body(comments(ctx)))

RECURSIVE schemaExports(_)
\* the loop of parseSchema over the exports
schemaExports_next(ctx, r) ==
    IF loopEnds(ctx, r) THEN r.ctx ELSE schemaExports(r.ctx)

schemaExports_body(c) ==
    [ctx |-> parseChild(c, parseExport(childCtx(c))).ctx,
     stop |-> FALSE]

schemaExports(ctx) ==
    IF ctx.err # 0 THEN ctx ELSE schemaExports_next(ctx, schemaExports_body(comments(ctx)))

RECURSIVE schemaOptions(_)
\* the loop of parseSchema over the options
schemaOptions_next(ctx, r) ==
    IF loopEnds(ctx, r) THEN r.ctx ELSE schemaOptions(r.ctx)

schemaOptions_body(c) ==
    [ctx |-> parseChild(c, parseOptions(childCtx(c))).ctx,
     stop |-> FALSE]

schemaOptions(ctx) ==
    IF ctx.err # 0 THEN ctx ELSE schemaOptions_next(ctx, schemaOptions_body(comments(ctx)))

\* the next declaration parser is tried while none has matched and no error
\* is set
orElse(p, fn) ==
    IF ~p.ok /\ p.ctx.err = 0
    THEN parseChild(p.ctx, parseOtherDecl(childCtx(p.ctx), fn))
    ELSE p

\* one pass of the declaration loop of parseSchema; an error the body returns
\* is left in ctx.err
declsBody_failed(c, code) ==
    [ctx |-> [errFromToken(c, code).ctx EXCEPT !.err = code], stop |-> TRUE]

declsBody_done(p) ==
    IF p.ctx.err # 0 THEN [ctx |-> p.ctx, stop |-> TRUE]
    ELSE IF ~p.ok
    THEN declsBody_failed(p.ctx, IF p.ctx.token.Kind = "IDENT" THEN 2016 ELSE 2015)
    ELSE [ctx |-> p.ctx, stop |-> FALSE]

declsBody_const(d) ==
    parseChild(d, parseConst(childCtx(d)))

declsBody_on(c) ==
    IF c.token.Kind = "EOF" THEN [ctx |-> c, stop |-> TRUE]
    ELSE declsBody_done(orElse(orElse(orElse(orElse(orElse(
                  declsBody_const(parseDecorators(c)),
                  "Enum"), "Struct"), "Message"), "Union"), "Protocol"))

declsBody(ctx) ==
    declsBody_on(comments(ctx))

RECURSIVE schemaDecls(_)
\* the loop of parseSchema over the declarations
schemaDecls_next(ctx, r) ==
    IF loopEnds(ctx, r) THEN r.ctx ELSE schemaDecls(r.ctx)

schemaDecls(ctx) ==
    IF ctx.err # 0 THEN ctx ELSE schemaDecls_next(ctx, declsBody(ctx))

parseSchema_namespace(c) ==
    parseChild(c, parseNamespace(childCtx(c))).ctx

parseSchema(ctx) ==
    finish(schemaDecls(schemaOptions(schemaExports(schemaImports(
               parseSchema_namespace(comments(ctx)))))), "Schema")

\* Parse: NewTokens refuses a source that is not UTF-8 before anything is
\* parsed
ParseSchema(src) ==
    IF ~utf8Valid(src)
    THEN [returnNil(newParseCtx(src), 1001) EXCEPT !.ctx.lexErr = 1001]
    ELSE parseSchema(newParseCtx(src))

RECURSIVE Unparse(_)
\* UnparseTo of every node type
Unparse(n) ==
    IF n.leaf
    THEN CASE n.kind = "Newline" -> IF n.crlf THEN <<13, 10>> ELSE <<10>>
           [] n.kind = "Sigil" -> <<n.raw>>
           [] OTHER -> n.raw
    ELSE Concat([i \in 1..Len(n.childNodes) |-> Unparse(n.childNodes[i])])

\* Span of every node type
Span(n) ==
    IF n.leaf
    THEN CASE n.kind = "Newline" -> [start |-> n.start, len |-> IF n.crlf THEN 2 ELSE 1]
           [] n.kind = "Sigil" -> [start |-> n.start, len |-> 1]
           [] OTHER -> [start |-> n.start, len |-> Len(n.raw)]
    ELSE n.span

RECURSIVE Walk(_)
\* the nodes Walk visits from n
Walk(n) ==
    IF n.leaf THEN {n}
    ELSE {n} \cup UNION {Walk(n.childNodes[i]) : i \in 1..Len(n.childNodes)}

----------------------------------------------------------------------------
(* Parsing scenario: Parse is called on a source, and the schema it returns *)
(* is unparsed.  A source is a head followed by up to MaxChunks pieces.     *)

MaxChunks == 2

Panicked == 0 - 1

\* nothing; namespace"x"; a comment, CRLF, then namespace "x" and LF
Heads ==
    {<<>>,
     <<110, 97, 109, 101, 115, 112, 97, 99, 101, 34, 120, 34>>,
     <<35, 99, 13, 10, 110, 97, 109, 101, 115, 112, 97, 99, 101, 32, 34, 120, 34, 10>>}

Chunks ==
    {\* a space
     <<32>>,
     \* a no-break space
     <<194, 160>>,
     \* comment, CRLF
     <<35, 99, 13, 10>>,
     \* import"x"as a\n
     <<105, 109, 112, 111, 114, 116, 34, 120, 34, 97, 115, 32, 97, 10>>,
     \* import "x" {a b}
     <<105, 109, 112, 111, 114, 116, 32, 34, 120, 34, 32, 123, 97, 32, 98, 125>>,
     \* export a.b
     <<101, 120, 112, 111, 114, 116, 32, 97, 46, 98>>,
     \*  as b\n
     <<32, 97, 115, 32, 98, 10>>,
     \* export{a}
     <<101, 120, 112, 111, 114, 116, 123, 97, 125>>,
     \* options:a.b{a.b=1}\n
     <<111, 112, 116, 105, 111, 110, 115, 58, 97, 46, 98, 123, 97, 46, 98, 61, 49, 125, 10>>,
     \* options{}
     <<111, 112, 116, 105, 111, 110, 115, 123, 125>>,
     \* @{a="\n"}
     <<64, 123, 97, 61, 34, 92, 110, 34, 125>>,
     \* @options{a=b.c}
     <<64, 111, 112, 116, 105, 111, 110, 115, 123, 97, 61, 98, 46, 99, 125>>,
     \* const a:b=.c
     <<99, 111, 110, 115, 116, 32, 97, 58, 98, 61, 46, 99>>,
     \* const a : b = -0x1f #c
     <<99, 111, 110, 115, 116, 32, 97, 32, 58, 32, 98, 32, 61, 32, 45, 48, 120, 49, 102, 32, 35, 99>>,
     \* const a:u16=1_0
     <<99, 111, 110, 115, 116, 32, 97, 58, 117, 49, 54, 61, 49, 95, 48>>,
     \* @
     <<64>>,
     \* a control character
     <<1>>,
     \* a no-break space and a control character
     <<194, 160, 1>>}

\* bytes of capacity the caller's slice has beyond its length
Slack == {0, 2}

InitParse ==
    /\ phase = "parse"
    /\ buf = <<>>
    /\ origin = <<>>
    /\ accepted = "none"
    /\ rd = NoRead
    /\ bld = NoBuilder
    /\ lex = Idle
    /\ \E head \in Heads : \E n \in 0..MaxChunks : \E f \in [1..n -> Chunks] :
          prs = [input |-> head \o Concat(f), st |-> "src", err |-> 0,
                 root |-> Nil, lexErr |-> 0, out |-> <<>>]
    /\ cmp = Idle

\* syntax.Parse(src); a readToken beyond the capacity of src panics
Parse ==
    /\ phase = "parse"
    /\ prs.st = "src"
    /\ LET returned(r) ==
               \E cap \in Slack :
                  prs' = [prs EXCEPT
                            !.st = "parsed",
                            !.err = IF r.ctx.over > cap THEN Panicked ELSE r.err,
                            !.root = IF r.ctx.over > cap THEN Nil ELSE r.node,
                            !.lexErr = r.ctx.lexErr]
       IN  returned(ParseSchema(prs.input))
    /\ UNCHANGED <<phase, buf, origin, accepted, rd, bld, lex, cmp>>

\* syntax.Unparse(schema)
UnparseSchema ==
    /\ phase = "parse"
    /\ prs.st = "parsed"
    /\ prs.err = 0
    /\ prs' = [prs EXCEPT !.st = "unparsed", !.out = Unparse(prs.root)]
    /\ UNCHANGED <<phase, buf, origin, accepted, rd, bld, lex, cmp>>

NextParse == Parse \/ UnparseSchema

SpecParse == InitParse /\ [][NextParse]_vars

C8_LexErrorSurfaced ==
    (phase = "parse" /\ prs.st = "parsed" /\ prs.lexErr # 0) =>
        prs.err = prs.lexErr

\* Parse has returned on a source in which the lexer met a control character
\* after a decorator's '@'
C8_LexErrorDuringParse ==
    /\ phase = "parse"
    /\ prs.st = "parsed"
    /\ prs.lexErr = 1003
    /\ prs.input = <<110, 97, 109, 101, 115, 112, 97, 99, 101, 34, 120, 34, 64, 1>>

----------------------------------------------------------------------------
(* The compiler's imports and exports (compiler.go).  Namespaces, aliases  *)
(* and names are byte strings.  A span is the pair <<i, j>>: i the index   *)
(* of the import or export node among the schema's children, j = 0 for the *)
(* node, 1 for its namespace, k + 1 for its k-th name.  c.opts.deps is     *)
(* the field deps of the compiler record: the caller's SchemaSet itself,   *)
(* since WithDependencies stores the pointer it is given.                   *)

strings_HasPrefix(s, prefix) ==
    Len(s) >= Len(prefix) /\ SubSeq(s, 1, Len(prefix)) = prefix

RECURSIVE strings_Compare(_, _)
strings_Compare(a, b) ==
    IF a = <<>> /\ b = <<>> THEN 0
    ELSE IF a = <<>> THEN 0 - 1
    ELSE IF b = <<>> THEN 1
    ELSE IF a[1] < b[1] THEN 0 - 1
    ELSE IF a[1] > b[1] THEN 1
    ELSE strings_Compare(Tail(a), Tail(b))

\* the least string of a set that is not empty
leastString(S) == CHOOSE x \in S : \A y \in S : strings_Compare(x, y) <= 0

RECURSIVE sortedStrings(_)
sortedStrings_from(S, m) == <<m>> \o sortedStrings(S \ {m})

\* slices.Sorted(maps.Keys(m)) and sort.Strings of a set of keys
sortedStrings(S) == IF S = {} THEN <<>> ELSE sortedStrings_from(S, leastString(S))

isCodegenOptions(namespace) ==
    strings_HasPrefix(namespace, <<105, 100, 111, 108, 47, 99, 111, 100, 101, 103, 101, 110, 45, 111, 112, 116, 105, 111, 110, 115, 47>>)

\* checkNamespace returns an error for this namespace
invalidNamespace(namespace) ==
    \/ namespace = <<>>
    \/ \E i \in 1..Len(namespace) :
          ~ \/ (namespace[i] >= 32 /\ namespace[i] <= 126)
            \/ namespace[i] >= 128
            \/ namespace[i] = 9

\* &mergedDecl{}
zeroMergedDecl == [type_ |-> "UNKNOWN", value |-> <<>>, conflict |-> FALSE]

\* a map without keys
emptyMap == <<>>

\* m[k] = v
mapSet(m, k, v) == [x \in DOMAIN m \cup {k} |-> IF x = k THEN v ELSE m[x]]

\* delete(m, k)
mapDelete(m, k) == [x \in DOMAIN m \ {k} |-> m[x]]

\* the compiler value Compile starts from; deps is nil when no SchemaSet
\* was given
newCompiler(deps, given) ==
    [deps |-> deps, given |-> given, errors |-> <<>>, warnings |-> <<>>,
     imports |-> <<>>, importedNames |-> emptyMap, importsByAlias |-> emptyMap,
     usedNames |-> emptyMap, unusedAliases |-> emptyMap,
     exportDupes |-> {}, Exports |-> <<>>, Decls |-> <<>>,
     Imports |-> <<>>, panicked |-> FALSE,
     decls |-> <<>>, declsByName |-> emptyMap,
     Consts |-> <<>>, Enums |-> <<>>, Messages |-> <<>>, Unions |-> <<>>]

\* a span is <<i, j>>: i is the index of the top-level node (0 for the
\* namespace node, imports before exports), j = 0 is the node itself,
\* j = 1 its namespace literal, j = k + 1 its k-th name; the spans start
\* in lexicographic order, and <<0, 0>> is the zero Span of an Error that
\* was given none
compiler_err(c, code, span) ==
    [c EXCEPT !.errors = Append(@, [code |-> code, span |-> span])]

compiler_warn(c, code, span) ==
    [c EXCEPT !.warnings = Append(@, [code |-> code, span |-> span])]

\* an import node as the compiler reads it: Namespace(), ImportAs() (empty
\* when the import has no alias) and ImportNames()
importNode(namespace, importAs, names) ==
    [namespace |-> namespace, importAs |-> importAs, names |-> names]

\* importOk of registerImport: a codegen-options namespace, or a namespace
\* the SchemaSet has
registerImport_importOk(c, namespace) ==
    isCodegenOptions(namespace) \/ namespace \in DOMAIN c.deps

registerImport_checked(c, node, i) ==
    IF invalidNamespace(node.namespace) THEN compiler_err(c, 3000, <<i, 1>>) ELSE c

\* a namespace the SchemaSet lacks is reported and then added to the
\* SchemaSet with an empty map
registerImport_decls(c, node, i) ==
    IF registerImport_importOk(c, node.namespace) THEN c
    ELSE [compiler_err(c, 3001, <<i, 1>>) EXCEPT
             !.deps = mapSet(@, node.namespace, emptyMap)]

registerImport_ictx(c, namespace) ==
    IF namespace \in DOMAIN c.usedNames THEN c
    ELSE [c EXCEPT !.imports = Append(@, namespace),
                   !.usedNames = mapSet(@, namespace, {}),
                   !.unusedAliases = mapSet(@, namespace, emptyMap)]

registerImport_as(c, node, i) ==
    IF node.importAs \in DOMAIN c.importsByAlias
    THEN IF c.importsByAlias[node.importAs] = node.namespace
         THEN compiler_warn(c, 4004, <<i, 0>>)
         ELSE compiler_err(c, 3002, <<i, 0>>)
    ELSE [c EXCEPT !.importsByAlias = mapSet(@, node.importAs, node.namespace),
                   !.unusedAliases[node.namespace] = mapSet(@, node.importAs, i)]

\* importDecls: the map made for a codegen-options namespace, otherwise the
\* SchemaSet's own map of the namespace
registerImport_importDecls(c, namespace, local) ==
    IF isCodegenOptions(namespace) THEN local ELSE c.deps[namespace]

\* importDecls[name] = &mergedDecl{} when importDecls is the SchemaSet's map
registerImport_setDecl(c, namespace, name) ==
    IF isCodegenOptions(namespace) THEN c
    ELSE [c EXCEPT !.deps[namespace] = mapSet(@, name, zeroMergedDecl)]

\* importDecls[name] = &mergedDecl{} when importDecls is the map of a
\* codegen-options namespace
registerImport_local(c, namespace, name, local) ==
    IF isCodegenOptions(namespace) /\ name \notin DOMAIN c.importedNames
    THEN mapSet(local, name, zeroMergedDecl)
    ELSE local

registerImport_lookup(c, node, i, j, importOk, local) ==
    IF importOk /\ node.names[j] \in
           DOMAIN registerImport_importDecls(c, node.namespace, local)
    THEN c
    ELSE registerImport_setDecl(
             IF importOk THEN compiler_err(c, 3005, <<i, j + 1>>) ELSE c,
             node.namespace, node.names[j])

registerImport_imported(c, node, i, j) ==
    [c EXCEPT !.importedNames =
         mapSet(@, node.names[j],
                [namespace |-> node.namespace, span |-> <<i, j + 1>>, used |-> FALSE])]

registerImport_name(c, node, i, j, importOk, local) ==
    IF node.names[j] \in DOMAIN c.importedNames
    THEN IF c.importedNames[node.names[j]].namespace = node.namespace
         THEN compiler_warn(c, 4003, <<i, j + 1>>)
         ELSE compiler_err(c, 3004, <<i, j>>)
    ELSE registerImport_imported(
             registerImport_lookup(c, node, i, j, importOk, local), node, i, j)

RECURSIVE registerImport_names(_, _, _, _, _, _)
registerImport_names(c, node, i, j, importOk, local) ==
    IF j > Len(node.names) THEN c
    ELSE registerImport_names(
             registerImport_name(c, node, i, j, importOk, local),
             node, i, j + 1, importOk,
             registerImport_local(c, node.namespace, node.names[j], local))

registerImport_hasNames(c, node, i) ==
    IF Len(node.names) = 0 THEN compiler_warn(c, 4000, <<i, 0>>) ELSE c

registerImport_rest(c, node, i, importOk) ==
    IF node.importAs # <<>> THEN registerImport_as(c, node, i)
    ELSE registerImport_hasNames(
             registerImport_names(c, node, i, 1, importOk, emptyMap), node, i)

registerImport(c, node, i) ==
    registerImport_rest(
        registerImport_ictx(
            registerImport_decls(registerImport_checked(c, node, i), node, i),
            node.namespace),
        node, i, registerImport_importOk(c, node.namespace))

RECURSIVE registerImports(_, _, _)
registerImports(c, imports, i) ==
    IF i > Len(imports) THEN c
    ELSE registerImports(registerImport(c, imports[i], i), imports, i + 1)

\* &mergedDecl{conflict: true}
conflictDecl == [type_ |-> "UNKNOWN", value |-> <<>>, conflict |-> TRUE]

\* == of two views of one schema_idl type: the views are equal when the
\* payloads they hold are the same bytes
viewsEqual(a, b) == a = b

canUnifyMergedDecls(a, b) ==
    /\ ~a.conflict /\ ~b.conflict
    /\ a.type_ = b.type_
    /\ a.type_ # "UNKNOWN"
    /\ viewsEqual(a.value, b.value)

\* the closure set of Merge
Merge_set(decls, k, v) ==
    IF k \in DOMAIN decls
    THEN IF canUnifyMergedDecls(v, decls[k]) THEN decls ELSE mapSet(decls, k, conflictDecl)
    ELSE mapSet(decls, k, v)

\* the declarations of one schema, in the order Merge reads them (consts,
\* enums, structs, messages, unions, protocols)
RECURSIVE Merge_decls(_, _, _)
Merge_decls(decls, schema, i) ==
    IF i > Len(schema.decls) THEN decls
    ELSE Merge_decls(
             Merge_set(decls, schema.decls[i].name,
                       [type_ |-> schema.decls[i].type_,
                        value |-> schema.decls[i].value, conflict |-> FALSE]),
             schema, i + 1)

\* Merge with the later schema's declaration taking the entry whenever the
\* two cannot be unified
Merge_name_Overwrite(prevDecls, decls, name) ==
    IF name \in DOMAIN prevDecls /\ canUnifyMergedDecls(decls[name], prevDecls[name])
    THEN prevDecls
    ELSE mapSet(prevDecls, name, decls[name])

Merge_name(prevDecls, decls, name) ==
    IF name \in DOMAIN prevDecls
    THEN IF canUnifyMergedDecls(decls[name], prevDecls[name]) THEN prevDecls
         ELSE mapSet(prevDecls, name, conflictDecl)
    ELSE mapSet(prevDecls, name, decls[name])

\* a second schema of a namespace is merged name by name, in sorted order
RECURSIVE Merge_names(_, _, _, _)
Merge_names(prevDecls, decls, names, i) ==
    IF i > Len(names) THEN prevDecls
    ELSE Merge_names(Merge_name(prevDecls, decls, names[i]), decls, names, i + 1)

Merge_schema(declsByNs, ns, decls) ==
    IF ns \in DOMAIN declsByNs
    THEN mapSet(declsByNs, ns,
                Merge_names(declsByNs[ns], decls, sortedStrings(DOMAIN decls), 1))
    ELSE mapSet(declsByNs, ns, decls)

RECURSIVE Merge_schemas(_, _, _)
Merge_schemas(declsByNs, schemas, i) ==
    IF i > Len(schemas) THEN declsByNs
    ELSE Merge_schemas(
             Merge_schema(declsByNs, schemas[i].namespace,
                          Merge_decls(emptyMap, schemas[i], 1)),
             schemas, i + 1)

\* Merge(schemas): the decls of the SchemaSet it returns
Merge(schemas) == Merge_schemas(emptyMap, schemas, 1)

\* SchemaSet.resolveExport: code 0 and the exportInfo, or the error's code;
\* imported is FALSE for the nil interface value
SchemaSet_resolveExport(decls, namespace, name) ==
    IF namespace \notin DOMAIN decls \/ name \notin DOMAIN decls[namespace]
    THEN [code |-> 3005, type_ |-> "UNKNOWN", imported |-> FALSE, value |-> <<>>]
    ELSE IF decls[namespace][name].conflict
    THEN [code |-> 3006, type_ |-> "UNKNOWN", imported |-> FALSE, value |-> <<>>]
    ELSE [code |-> 0, type_ |-> decls[namespace][name].type_,
          imported |-> decls[namespace][name].type_ # "UNKNOWN",
          value |-> decls[namespace][name].value]

\* SchemaSet.resolveConst: code 0 and the const, or the error's code;
\* panicked for a declaration of no category
SchemaSet_resolveConst(decls, namespace, name) ==
    IF namespace \notin DOMAIN decls \/ name \notin DOMAIN decls[namespace]
    THEN [code |-> 3005, panicked |-> FALSE, value |-> <<>>]
    ELSE IF decls[namespace][name].conflict
    THEN [code |-> 3006, panicked |-> FALSE, value |-> <<>>]
    ELSE IF decls[namespace][name].type_ = "CONST"
    THEN [code |-> 0, panicked |-> FALSE, value |-> decls[namespace][name].value]
    ELSE IF decls[namespace][name].type_ = "UNKNOWN"
    THEN [code |-> 0, panicked |-> TRUE, value |-> <<>>]
    ELSE [code |-> 196608, panicked |-> FALSE, value |-> <<>>]

\* an ExportName node: Scope() (empty when the name has no scope) and Name()
exportName(scope, name) == [scope |-> scope, name |-> name]

\* an export node: ExportNames(), or the one name and the identifier of
\* ExportAs() (exportAs is empty for the list form)
exportNode(exportAs, names) == [exportAs |-> exportAs, names |-> names]

resolveExport_failed(c, code, span) ==
    [c |-> c, found |-> FALSE, code |-> code, span |-> span,
     type_ |-> "UNKNOWN", typeName |-> <<>>, imported |-> FALSE, value |-> <<>>]

\* after c.opts.deps.resolveExport returned r
resolveExport_resolved(c, namespace, name, r, span, byName) ==
    IF r.code # 0 THEN resolveExport_failed(c, r.code, span)
    ELSE [c |-> [c EXCEPT !.usedNames[namespace] = @ \cup {name},
                          !.importedNames =
                              IF byName THEN [@ EXCEPT ![name].used = TRUE] ELSE @],
          found |-> TRUE, code |-> 0, span |-> span, type_ |-> r.type_,
          typeName |-> namespace \o <<31>> \o name, imported |-> r.imported,
          value |-> r.value]

resolveExport_scoped(c, node, namespace, span) ==
    resolveExport_resolved(
        [c EXCEPT !.unusedAliases[namespace] = mapDelete(@, node.scope)],
        namespace, node.name,
        SchemaSet_resolveExport(c.deps, namespace, node.name), span, FALSE)

resolveExport_named(c, node, namespace, span) ==
    resolveExport_resolved(
        c, namespace, node.name,
        SchemaSet_resolveExport(c.deps, namespace, node.name), span, TRUE)

\* compiler.resolveExport; the modelled sources declare nothing, so
\* c.declsByName is empty
resolveExport(c, node, span) ==
    IF node.scope # <<>>
    THEN IF node.scope \in DOMAIN c.importsByAlias
         THEN resolveExport_scoped(c, node, c.importsByAlias[node.scope], span)
         ELSE resolveExport_failed(c, 3003, span)
    ELSE IF node.name \in DOMAIN c.importedNames
    THEN resolveExport_named(c, node, c.importedNames[node.name].namespace, span)
    ELSE resolveExport_failed(c, 196608, <<0, 0>>)

\* registerExportedDecl: the declaration is cloned as it is, its TypeName
\* included, and only its name is replaced; the type switch on a nil
\* interface value reaches panic("unreachable")
registerExportedDecl(c, r, name, exportAs) ==
    IF ~r.imported THEN [c EXCEPT !.panicked = TRUE]
    ELSE [c EXCEPT !.Decls = Append(@, [type_ |-> r.type_,
                                        name |-> IF exportAs # <<>> THEN exportAs
                                                 ELSE name,
                                        typeName |-> r.value.typeName])]

compileExports_redundant(node) ==
    node.exportAs # <<>> /\ node.names[1].name = node.exportAs

compileExports_key(r, node) ==
    [type_ |-> r.type_, typeName |-> r.typeName,
     exportAs |-> IF compileExports_redundant(node) THEN <<>> ELSE node.exportAs]

compileExports_add(c, r, node, j) ==
    registerExportedDecl(
        [c EXCEPT !.exportDupes = @ \cup {compileExports_key(r, node)},
                  !.Exports = Append(@, [type_ |-> r.type_, typeName |-> r.typeName,
                                         exportAs |-> node.exportAs])],
        r, node.names[j].name, node.exportAs)

compileExports_resolved(r, node, i, j) ==
    IF ~r.found
    THEN IF r.code # 0 THEN compiler_err(r.c, r.code, r.span) ELSE r.c
    ELSE IF compileExports_key(r, node) \in r.c.exportDupes
    THEN compiler_warn(r.c, 4006, <<i, j + 1>>)
    ELSE compileExports_add(r.c, r, node, j)

RECURSIVE compileExports_names(_, _, _, _)
compileExports_names(c, node, i, j) ==
    IF j > Len(node.names) \/ c.panicked THEN c
    ELSE compileExports_names(
             compileExports_resolved(resolveExport(c, node.names[j], <<i, j + 1>>),
                                     node, i, j),
             node, i, j + 1)

compileExports_node(c, node, i) ==
    IF node.exportAs # <<>>
    THEN compileExports_names(
             IF compileExports_redundant(node) THEN compiler_warn(c, 4007, <<i, 0>>)
             ELSE c,
             node, i, 1)
    ELSE IF Len(node.names) = 0 THEN compiler_warn(c, 4005, <<i, 0>>)
    ELSE compileExports_names(c, node, i, 1)

\* the export nodes follow the import nodes: node k is child first + k
RECURSIVE compileExports(_, _, _, _)
compileExports(c, exports, first, k) ==
    IF k > Len(exports) \/ c.panicked THEN c
    ELSE compileExports(compileExports_node(c, exports[k], first + k),
                        exports, first, k + 1)

\* the imported names the first loop of compileImports warns about
compileImports_unused(c) ==
    {name \in DOMAIN c.importedNames : ~c.importedNames[name].used}

\* the range over the map c.importedNames visits the names in an order
\* the language leaves open: order is the order of this run
RECURSIVE compileImports_names(_, _, _)
compileImports_names(c, order, k) ==
    IF k > Len(order) THEN c
    ELSE compileImports_names(
             compiler_warn(c, 4001, c.importedNames[order[k]].span), order, k + 1)

RECURSIVE compileImports_aliases(_, _, _, _)
compileImports_aliases(c, namespace, aliases, k) ==
    IF k > Len(aliases) THEN c
    ELSE compileImports_aliases(
             compiler_warn(c, 4002, <<c.unusedAliases[namespace][aliases[k]], 0>>),
             namespace, aliases, k + 1)

RECURSIVE compileImports_ictxs(_, _)
compileImports_ictxs(c, k) ==
    IF k > Len(c.imports) THEN c
    ELSE compileImports_ictxs(
             compileImports_aliases(
                 c, c.imports[k],
                 sortedStrings(DOMAIN c.unusedAliases[c.imports[k]]), 1),
             k + 1)

\* the namespaces of the import contexts with used names
compileImports_used(c) == {ns \in DOMAIN c.usedNames : c.usedNames[ns] # {}}

RECURSIVE compileImports_schema(_, _, _)
compileImports_schema(c, namespaces, k) ==
    IF k > Len(namespaces) THEN c
    ELSE compileImports_schema(
             [c EXCEPT !.Imports =
                  Append(@, [namespace |-> namespaces[k],
                             names |-> sortedStrings(c.usedNames[namespaces[k]])])],
             namespaces, k + 1)

compileImports(c, order) ==
    IF c.panicked THEN c
    ELSE compileImports_schema(
             compileImports_ictxs(compileImports_names(c, order, 1), 1),
             sortedStrings(compileImports_used(c)), 1)

----------------------------------------------------------------------------
(* Declarations (compiler.go, registerDecls and compileDecls).  A           *)
(* declaration node is a record of what the compiler reads from it; an     *)
(* integer literal is the IntLit the parser makes of its token: the bytes  *)
(* and the value.  Spans inside declaration i are <<i, j>> with j the      *)
(* place inside the declaration, in source order.                          *)

\* the IntLit of a token: the lexer gives the kind, newIntLit the value; the
\* literals of the modelled sources are tokens newIntLit accepts
IntLit(raw) ==
    [kind |-> "IntLit", raw |-> raw,
     value |-> newIntLit_value(raw, Tokens_Next(NewTokens(raw)).token.Kind).value]

EnumRef(name) == [kind |-> "EnumRef", name |-> name]

\* a value that is absent: the nil Node of an option without "="
NoValue == [kind |-> "nil"]

\* the bytes UnparseTo writes for a value node
Value_Unparse(v) == IF v.kind = "IntLit" THEN v.raw ELSE <<46>> \o v.name

IntLit_GetUint8(n) == n.raw[1] # 45 /\ U64_le(n.value, U64(255))

IntLit_GetUint16(n) == n.raw[1] # 45 /\ U64_le(n.value, U64(65535))

IntLit_GetUint32(n) == n.raw[1] # 45 /\ U64_le(n.value, <<65535, 65535, 0, 0>>)

IntLit_GetUint64(n) == n.raw[1] # 45

\* int64(n.value) lies in [min, max], min given as its two's complement
int64_within(v, min, max) ==
    IF v[4] >= 32768 THEN U64_le(min, v) ELSE U64_le(v, max)

IntLit_GetInt8(n) ==
    \/ n.raw[1] = 45 /\ int64_within(n.value, <<65408, 65535, 65535, 65535>>, U64(127))
    \/ U64_le(n.value, U64(127))

IntLit_GetInt16(n) ==
    \/ n.raw[1] = 45 /\ int64_within(n.value, <<32768, 65535, 65535, 65535>>, U64(32767))
    \/ U64_le(n.value, U64(32767))

IntLit_GetInt32(n) ==
    \/ n.raw[1] = 45 /\ int64_within(n.value, <<0, 32768, 65535, 65535>>, <<65535, 32767, 0, 0>>)
    \/ U64_le(n.value, <<65535, 32767, 0, 0>>)

IntLit_GetInt64(n) ==
    n.raw[1] = 45 \/ U64_le(n.value, <<65535, 65535, 65535, 32767>>)

IntTypes == {"U8", "I8", "U16", "I16", "U32", "I32", "U64", "I64"}

\* the getter compileValue and compileEnum call for a type: ok, and the
\* value converted to the type and back to uint64 bits of the type's width
IntLit_Get(n, type_) ==
    CASE type_ = "U8" -> IntLit_GetUint8(n)
      [] type_ = "I8" -> IntLit_GetInt8(n)
      [] type_ = "U16" -> IntLit_GetUint16(n)
      [] type_ = "I16" -> IntLit_GetInt16(n)
      [] type_ = "U32" -> IntLit_GetUint32(n)
      [] type_ = "I32" -> IntLit_GetInt32(n)
      [] type_ = "U64" -> IntLit_GetUint64(n)
      [] type_ = "I64" -> IntLit_GetInt64(n)

typeWidth(type_) ==
    CASE type_ \in {"U8", "I8"} -> 1
      [] type_ \in {"U16", "I16"} -> 2
      [] type_ \in {"U32", "I32"} -> 4
      [] type_ \in {"U64", "I64"} -> 8

\* math.MaxUint8 .. math.MaxUint64 by width
U64_bytesMax(width) ==
    CASE width = 1 -> U64(255)
      [] width = 2 -> U64(65535)
      [] width = 4 -> <<65535, 65535, 0, 0>>
      [] width = 8 -> U64_max

\* math.MinInt8 .. math.MinInt64 (as two's complement) and math.MaxInt8 ..
\* math.MaxInt64 by width
int64_min(width) ==
    CASE width = 1 -> <<65408, 65535, 65535, 65535>>
      [] width = 2 -> <<32768, 65535, 65535, 65535>>
      [] width = 4 -> <<0, 32768, 65535, 65535>>
      [] width = 8 -> <<0, 0, 0, 32768>>

int64_max(width) ==
    CASE width = 1 -> U64(127)
      [] width = 2 -> U64(32767)
      [] width = 4 -> <<65535, 32767, 0, 0>>
      [] width = 8 -> <<65535, 65535, 65535, 32767>>

\* a typeInfo: type_, typeName and, for a local declaration, its index decl
\* in c.decls (0 for none)
typeInfo(type_, typeName, decl) == [type_ |-> type_, typeName |-> typeName, decl |-> decl]

typeInfo_isEnum(t) == t.typeName # <<>> /\ t.type_ \in IntTypes

typeInfo_canCompileValue(t) ==
    t.type_ \in ({"BOOL", "F32", "F64", "ASCIZ", "TEXT"} \cup IntTypes)

\* the result of compileValue: the bytes, or the code and span of the error
valueOk(bytes) == [code |-> 0, span |-> <<0, 0>>, value |-> bytes]

valueErr(code, span) == [code |-> code, span |-> span, value |-> <<>>]

\* compileEnumRefValue for an enum declared in the source
compileEnumRefValue(enumValues, valueType, span, name) ==
    IF name \notin DOMAIN enumValues THEN valueErr(196608, <<0, 0>>)
    ELSE IF valueType.type_ \in {"U8", "U16", "U32", "U64"}
    THEN IF U64_le(enumValues[name],
                   U64_bytesMax(typeWidth(valueType.type_)))
         THEN valueOk(U64_bytes(enumValues[name], typeWidth(valueType.type_)))
         ELSE valueErr(3016, span)
    ELSE IF int64_within(enumValues[name], int64_min(typeWidth(valueType.type_)),
                         int64_max(typeWidth(valueType.type_)))
    THEN valueOk(U64_bytes(enumValues[name], typeWidth(valueType.type_)))
    ELSE valueErr(3016, span)

compileValue_bool(valueNode, span) ==
    IF valueNode.kind # "EnumRef" THEN valueErr(3015, span)
    ELSE IF valueNode.name = <<116, 114, 117, 101>> THEN valueOk(<<1>>)
    ELSE IF valueNode.name = <<102, 97, 108, 115, 101>> THEN valueOk(<<0>>)
    ELSE valueErr(3017, span)

compileValue_int(valueType, valueNode, span) ==
    IF valueNode.kind # "IntLit" THEN valueErr(3015, span)
    ELSE IF IntLit_Get(valueNode, valueType.type_)
    THEN valueOk(U64_bytes(valueNode.value, typeWidth(valueType.type_)))
    ELSE valueErr(3016, span)

\* compiler.compileValue of the value at span; the modelled sources have no
\* value names and no constants of type f32, f64, asciz or text
compileValue(c, valueType, valueNode, span) ==
    IF typeInfo_isEnum(valueType)
    THEN IF valueNode.kind # "EnumRef" THEN valueErr(3015, span)
         ELSE compileEnumRefValue(c.decls[valueType.decl].enumValues, valueType,
                                  span, valueNode.name)
    ELSE IF valueType.type_ = "BOOL" THEN compileValue_bool(valueNode, span)
    ELSE compileValue_int(valueType, valueNode, span)

\* Options.  A decorator of the modelled sources is @{name} or @{name=value}:
\* it carries one option and names no schema, so its optionsSchema is the
\* built-in one of the decorated node; an option is its name and its value
\* (NoValue without "=").  Decorator d of the node whose spans start at base
\* takes three places: the option, its name, its value.
Option(name, value) == [name |-> name, value |-> value]

optionSpan(i, base, d) == <<i, base + 3 * d - 2>>

optionNameSpan(i, base, d) == <<i, base + 3 * d - 1>>

optionValueSpan(i, base, d) == <<i, base + 3 * d>>

\* the optionsCtx of one compileDecorators call next to the compiler: seen of
\* the one schema, the builder's optional flag, the uninterpreted options
newOptionsCtx(c) ==
    [c |-> c, seen |-> emptyMap, optional |-> FALSE, uninterpreted |-> <<>>]

\* optionsCtx.checkConflict: <<conflict, ok>>
checkConflict(seen, name, value) ==
    IF name \in DOMAIN seen
    THEN IF value = seen[name] THEN <<FALSE, FALSE>> ELSE <<TRUE, FALSE>>
    ELSE <<FALSE, TRUE>>

\* resolveOptionType for a built-in schema: TRUE when the option is typed
resolveOptionType_typed(builtin, name) ==
    builtin = "MESSAGE_FIELD" /\ name = <<111, 112, 116, 105, 111, 110, 97, 108>>

compileBuiltinOption(o, option, i, base, d) ==
    IF option.value.kind = "nil" THEN [o EXCEPT !.optional = TRUE]
    ELSE IF option.value.kind # "EnumRef"
    THEN [o EXCEPT !.c = compiler_err(@, 3015, optionValueSpan(i, base, d))]
    ELSE IF option.value.name = <<102, 97, 108, 115, 101>> THEN o
    ELSE [o EXCEPT !.c = compiler_err(@, 3017, optionValueSpan(i, base, d)),
                   !.optional = (option.value.name = <<116, 114, 117, 101>>) \/ @]

\* compileOption from getUninterpretedOptionsBuilder on, for an option
\* whose type was not resolved
compileOption_uninterpreted(o, option, i, base, d) ==
    IF option.value.kind = "nil" THEN [o EXCEPT !.c.panicked = TRUE]
    ELSE IF checkConflict(o.seen, option.name, Value_Unparse(option.value))[2]
    THEN [o EXCEPT !.seen = mapSet(@, option.name, Value_Unparse(option.value)),
                   !.uninterpreted = Append(@, [name |-> option.name,
                                                value |-> Value_Unparse(option.value)])]
    ELSE IF checkConflict(o.seen, option.name, Value_Unparse(option.value))[1]
    THEN [o EXCEPT !.c = compiler_err(@, 3010, optionSpan(i, base, d))]
    ELSE [o EXCEPT !.c = compiler_warn(@, 4010, optionSpan(i, base, d))]

compileOption(o, builtin, option, i, base, d) ==
    IF resolveOptionType_typed(builtin, option.name)
    THEN compileBuiltinOption(o, option, i, base, d)
    ELSE compileOption_uninterpreted(
             [o EXCEPT !.c = compiler_warn(@, 4011, optionNameSpan(i, base, d))],
             option, i, base, d)

RECURSIVE compileDecorators_from(_, _, _, _, _, _)
compileDecorators_from(o, builtin, decorators, i, base, d) ==
    IF d > Len(decorators) \/ o.c.panicked THEN o
    ELSE compileDecorators_from(
             compileOption(o, builtin, decorators[d], i, base, d),
             builtin, decorators, i, base, d + 1)

\* compileDecorators and the compile...Options around it: the compiler
\* after it, and the options builder (set is FALSE for a nil builder)
compileDecorators(c, builtin, decorators, i, base) ==
    compileDecorators_from(newOptionsCtx(c), builtin, decorators, i, base, 1)

optionsBuilder(o) ==
    [set |-> o.optional \/ Len(o.uninterpreted) > 0, optional |-> o.optional,
     uninterpreted |-> o.uninterpreted]

\* Declaration nodes.  at is the index of the node among the schema's
\* children; inside the node the places are: its decorators from 1, its name
\* 10, its type 11, its value 12, and for item or field m the same places
\* from 100 * m on, with the tag of a field at 11, the tag's literal at 12
\* and the field's type at 13.  The modelled sources declare constants,
\* enums, messages and unions.
Const(at, name, typeName, value, decorators) ==
    [kind |-> "Const", at |-> at, name |-> name, typeName |-> typeName,
     value |-> value, items |-> <<>>, decorators |-> decorators]

Enum(at, name, typeName, items, decorators) ==
    [kind |-> "Enum", at |-> at, name |-> name, typeName |-> typeName,
     value |-> NoValue, items |-> items, decorators |-> decorators]

EnumItem(name, value) == [name |-> name, value |-> value]

Message(at, name, fields) ==
    [kind |-> "Message", at |-> at, name |-> name, typeName |-> <<>>,
     value |-> NoValue, items |-> fields, decorators |-> <<>>]

Union(at, name, fields) ==
    [kind |-> "Union", at |-> at, name |-> name, typeName |-> <<>>,
     value |-> NoValue, items |-> fields, decorators |-> <<>>]

MessageField(name, tag, typeName, decorators) ==
    [name |-> name, tag |-> tag, typeName |-> typeName, decorators |-> decorators]

builtinTypes ==
    (<<98, 111, 111, 108>> :> "BOOL") @@ (<<117, 56>> :> "U8") @@ (<<105, 56>> :> "I8") @@
    (<<117, 49, 54>> :> "U16") @@ (<<105, 49, 54>> :> "I16") @@ (<<117, 51, 50>> :> "U32") @@
    (<<105, 51, 50>> :> "I32") @@ (<<117, 54, 52>> :> "U64") @@ (<<105, 54, 52>> :> "I64") @@
    (<<102, 51, 50>> :> "F32") @@ (<<102, 54, 52>> :> "F64") @@ (<<116, 101, 120, 116>> :> "TEXT") @@
    (<<97, 115, 99, 105, 122>> :> "ASCIZ") @@ (<<104, 97, 110, 100, 108, 101>> :> "HANDLE")

noTypeInfo == typeInfo("UNKNOWN", <<>>, 0)

newDeclInfo(node) ==
    [node |-> node, enumType |-> "UNKNOWN", hasConstType |-> FALSE,
     constType |-> noTypeInfo, enumValues |-> emptyMap, constValue |-> <<>>]

registerDecl_names(c, node) ==
    IF node.name \in DOMAIN c.declsByName
    THEN compiler_err(c, 3012, <<node.at, 10>>)
    ELSE [c EXCEPT !.declsByName = mapSet(@, node.name, Len(c.decls) + 1)]

registerDecl_imported(c, node) ==
    IF node.name \in DOMAIN c.importedNames
    THEN compiler_err(c, 3013, <<node.at, 10>>) ELSE c

registerDecl_importAs(c, node) ==
    IF node.name \in DOMAIN c.importsByAlias
    THEN compiler_err(c, 3014, <<node.at, 10>>) ELSE c

registerDecl_builtin(c, node) ==
    IF node.name \in DOMAIN builtinTypes
    THEN compiler_warn(c, 4009, <<node.at, 10>>) ELSE c

\* registerDecl: the declaration is c.decls[Len(c.decls)] afterwards
registerDecl(c, node) ==
    [registerDecl_builtin(registerDecl_importAs(registerDecl_imported(
         registerDecl_names(c, node), node), node), node)
     EXCEPT !.decls = Append(@, newDeclInfo(node))]

registerEnumType(c, node) ==
    IF node.typeName \in DOMAIN builtinTypes /\ builtinTypes[node.typeName] \in IntTypes
    THEN [c EXCEPT !.decls[Len(c.decls)].enumType = builtinTypes[node.typeName]]
    ELSE compiler_err(c, 3021, <<node.at, 11>>)

\* SchemaSet.resolveType: code 0 and the type, or the error's code and
\* span; the caller's schemas declare consts and structs
SchemaSet_resolveType(decls, namespace, name, importSpan, useSpan) ==
    IF namespace \notin DOMAIN decls \/ name \notin DOMAIN decls[namespace]
    THEN [code |-> 3005, span |-> importSpan, type_ |-> "UNKNOWN"]
    ELSE IF decls[namespace][name].conflict
    THEN [code |-> 3006, span |-> importSpan, type_ |-> "UNKNOWN"]
    ELSE IF decls[namespace][name].type_ \in {"CONST", "PROTOCOL"}
    THEN [code |-> 3007, span |-> useSpan, type_ |-> "UNKNOWN"]
    ELSE [code |-> 0, span |-> <<0, 0>>, type_ |-> decls[namespace][name].type_]

\* the result of compiler.resolveType: the compiler after it, and the
\* typeInfo or the error's code and span
resolveType_ok(c, type) == [c |-> c, err |-> 0, span |-> <<0, 0>>, type |-> type]

resolveType_failed(c, code, span) ==
    [c |-> c, err |-> code, span |-> span, type |-> noTypeInfo]

resolveType_local(c, name) ==
    CASE c.decls[c.declsByName[name]].node.kind = "Enum" ->
            resolveType_ok(c, typeInfo(c.decls[c.declsByName[name]].enumType,
                                       name, c.declsByName[name]))
      [] c.decls[c.declsByName[name]].node.kind = "Message" ->
            resolveType_ok(c, typeInfo("MESSAGE", name, c.declsByName[name]))
      [] c.decls[c.declsByName[name]].node.kind = "Union" ->
            resolveType_ok(c, typeInfo("UNION", name, c.declsByName[name]))
      [] c.decls[c.declsByName[name]].node.kind = "Const" ->
            resolveType_failed(c, 196608, <<0, 0>>)

\* after c.opts.deps.resolveType returned r for the imported name
resolveType_imported(c, name, namespace, r) ==
    IF r.code # 0 THEN resolveType_failed(c, r.code, r.span)
    ELSE resolveType_ok(
             [c EXCEPT !.importedNames[name].used = TRUE,
                       !.usedNames[namespace] = @ \cup {name}],
             typeInfo(r.type_, namespace \o <<31>> \o name, 0))

\* compiler.resolveType of an unscoped name used at useSpan, without
\* resolver options
resolveType(c, name, useSpan) ==
    IF name \in DOMAIN c.declsByName THEN resolveType_local(c, name)
    ELSE IF name \in DOMAIN c.importedNames
    THEN resolveType_imported(
             c, name, c.importedNames[name].namespace,
             SchemaSet_resolveType(c.deps, c.importedNames[name].namespace, name,
                                   c.importedNames[name].span, useSpan))
    ELSE IF name \in DOMAIN builtinTypes
    THEN resolveType_ok(c, typeInfo(builtinTypes[name], <<>>, 0))
    ELSE resolveType_failed(c, 196608, <<0, 0>>)

registerConstType_resolved(r) ==
    IF r.err # 0 THEN compiler_err(r.c, r.err, r.span)
    ELSE [r.c EXCEPT !.decls[Len(r.c.decls)].hasConstType = TRUE,
                     !.decls[Len(r.c.decls)].constType = r.type]

registerConstType(c, node) ==
    registerConstType_resolved(resolveType(c, node.typeName, <<node.at, 11>>))

registerDecls_node(c, node) ==
    IF node.kind = "Enum" THEN registerEnumType(registerDecl(c, node), node)
    ELSE IF node.kind = "Const" THEN registerConstType(registerDecl(c, node), node)
    ELSE registerDecl(c, node)

\* one loop of registerDecls: the nodes of one kind, in source order
RECURSIVE registerDecls_kind(_, _, _, _)
registerDecls_kind(c, nodes, kind, k) ==
    IF k > Len(nodes) THEN c
    ELSE registerDecls_kind(
             IF nodes[k].kind = kind THEN registerDecls_node(c, nodes[k]) ELSE c,
             nodes, kind, k + 1)

registerDecls(c, nodes) ==
    registerDecls_kind(registerDecls_kind(registerDecls_kind(registerDecls_kind(
        c, nodes, "Enum", 1), nodes, "Message", 1), nodes, "Union", 1),
        nodes, "Const", 1)

\* compileConst after compileConstOptions; k is the declaration's index in
\* c.decls.  A nil result adds nothing to c.Consts.
compileConst_builder(o, k, valued, value) ==
    [name |-> o.c.decls[k].node.name,
     type_ |-> IF o.c.decls[k].hasConstType THEN o.c.decls[k].constType.type_
               ELSE "UNKNOWN",
     typeName |-> o.c.decls[k].constType.typeName,
     valued |-> valued, value |-> value, options |-> optionsBuilder(o)]

compileConst_value(o, k) ==
    compileValue(o.c, o.c.decls[k].constType, o.c.decls[k].node.value,
                 <<o.c.decls[k].node.at, 12>>)

compileConst_typed(o, k) ==
    IF ~typeInfo_canCompileValue(o.c.decls[k].constType)
    THEN [compiler_err(o.c, 3020, <<o.c.decls[k].node.at, 11>>)
          EXCEPT !.Consts = Append(@, compileConst_builder(o, k, FALSE, <<>>))]
    ELSE IF compileConst_value(o, k).code = 0
    THEN [o.c EXCEPT !.decls[k].constValue = compileConst_value(o, k).value,
                     !.Consts = Append(@, compileConst_builder(
                                              o, k, TRUE, compileConst_value(o, k).value))]
    ELSE [compiler_err(o.c, compileConst_value(o, k).code, compileConst_value(o, k).span)
          EXCEPT !.Consts = Append(@, compileConst_builder(o, k, FALSE, <<>>))]

compileConst_after(o, k, compilingEnumConsts) ==
    IF o.c.panicked THEN o.c
    ELSE IF ~o.c.decls[k].hasConstType
    THEN IF compilingEnumConsts THEN o.c
         ELSE [o.c EXCEPT !.Consts = Append(@, compileConst_builder(o, k, FALSE, <<>>))]
    ELSE IF compilingEnumConsts # typeInfo_isEnum(o.c.decls[k].constType) THEN o.c
    ELSE compileConst_typed(o, k)

compileConst(c, k, compilingEnumConsts) ==
    compileConst_after(
        compileDecorators(c, "CONST", c.decls[k].node.decorators, c.decls[k].node.at, 0),
        k, compilingEnumConsts)

\* uint64(uint8(v)) .. uint64(v): the value compileEnum keeps for an item
enumItemValue(v, type_) ==
    CASE typeWidth(type_) = 1 -> <<v[1] % 256, 0, 0, 0>>
      [] typeWidth(type_) = 2 -> <<v[1], 0, 0, 0>>
      [] typeWidth(type_) = 4 -> <<v[1], v[2], 0, 0>>
      [] typeWidth(type_) = 8 -> v

\* the locals of compileEnum; errEnumItemNameConflict reads the map aliases
\* for its message only
newEnumCtx(o) ==
    [c |-> o.c, options |-> optionsBuilder(o), valuesByName |-> emptyMap,
     names |-> {}, namesByValue |-> emptyMap, pendingAliases |-> <<>>,
     items |-> <<>>]

enumItemBuilder(name, value, isAlias) ==
    [name |-> name, value |-> value, isAlias |-> isAlias]

compileEnum_name(e, item, at, m) ==
    [e EXCEPT !.c = IF item.name \in e.names
                    THEN compiler_err(@, 3022, <<at, 100 * m + 10>>) ELSE @,
              !.names = @ \cup {item.name}]

compileEnum_intLit(e, enumType, item, at, m) ==
    IF enumType \in IntTypes /\ IntLit_Get(item.value, enumType)
    THEN [e EXCEPT !.valuesByName =
                       mapSet(@, item.name, enumItemValue(item.value.value, enumType)),
                   !.c = IF enumItemValue(item.value.value, enumType)
                              \in DOMAIN e.namesByValue
                         THEN compiler_err(@, 3023, <<at, 100 * m + 12>>) ELSE @,
                   !.namesByValue =
                       mapSet(@, enumItemValue(item.value.value, enumType), item.name),
                   !.items = Append(@, enumItemBuilder(
                       item.name, enumItemValue(item.value.value, enumType), FALSE))]
    ELSE [e EXCEPT !.c = compiler_err(@, 3016, <<at, 100 * m + 12>>),
                   !.items = Append(@, enumItemBuilder(item.name, U64(0), FALSE))]

compileEnum_enumRef(e, item) ==
    IF item.value.name \in DOMAIN e.valuesByName
    THEN [e EXCEPT !.items = Append(@, enumItemBuilder(
                       item.name, e.valuesByName[item.value.name], TRUE))]
    ELSE [e EXCEPT !.pendingAliases =
                       Append(@, [name |-> item.name, targetName |-> item.value.name,
                                  idx |-> Len(e.items) + 1]),
                   !.items = Append(@, enumItemBuilder(item.name, U64(0), TRUE))]

\* a value written as a name
ValueName(name) == [kind |-> "ValueName", name |-> name]

\* uint64(v[0]), uint64(binary.LittleEndian.Uint16(v)), ..: the bytes of a
\* const read without their sign
U64_fromBytes(v) ==
    [l \in 1..4 |->
        (IF 2 * l - 1 <= Len(v) THEN v[2 * l - 1] ELSE 0)
        + 256 * (IF 2 * l <= Len(v) THEN v[2 * l] ELSE 0)]

constFailed(code) ==
    [ok |-> FALSE, code |-> code, type_ |-> "UNKNOWN", typeName |-> <<>>, value |-> <<>>]

\* compiler.resolveConst of an unscoped name; the sources that use value
\* names import no names.  A constValue of no bytes is the nil of a const
\* that has not been compiled.
resolveConst(c, name) ==
    IF name \notin DOMAIN c.declsByName THEN constFailed(196608)
    ELSE IF c.decls[c.declsByName[name]].node.kind # "Const" THEN constFailed(196608)
    ELSE IF c.decls[c.declsByName[name]].constValue = <<>> THEN constFailed(0)
    ELSE [ok |-> TRUE, code |-> 0,
          type_ |-> c.decls[c.declsByName[name]].constType.type_,
          typeName |-> c.decls[c.declsByName[name]].constType.typeName,
          value |-> c.decls[c.declsByName[name]].constValue]

enumValueOk(value) == [ok |-> TRUE, panicked |-> FALSE, code |-> 0, value |-> value]

enumValueErr(code) == [ok |-> FALSE, panicked |-> FALSE, code |-> code, value |-> U64(0)]

\* the second switch of resolveEnumItemValue
resolveEnumItemValue_range(value, signed, enumType) ==
    IF enumType \notin IntTypes
    THEN [ok |-> FALSE, panicked |-> TRUE, code |-> 0, value |-> U64(0)]
    ELSE IF enumType \in {"U8", "U16", "U32", "U64"}
    THEN IF signed /\ value[4] >= 32768 THEN enumValueErr(3016)
         ELSE IF ~U64_le(value, U64_bytesMax(typeWidth(enumType))) THEN enumValueErr(3016)
         ELSE enumValueOk(value)
    ELSE IF int64_within(value, int64_min(typeWidth(enumType)),
                         int64_max(typeWidth(enumType)))
    THEN enumValueOk(value)
    ELSE enumValueErr(3016)

resolveEnumItemValue_const(const_, enumType) ==
    IF ~const_.ok THEN enumValueErr(const_.code)
    ELSE IF const_.typeName # <<>> THEN enumValueErr(0)
    ELSE IF const_.type_ \notin IntTypes THEN enumValueErr(0)
    ELSE IF Len(const_.value) # typeWidth(const_.type_) THEN enumValueErr(0)
    ELSE resolveEnumItemValue_range(U64_fromBytes(const_.value),
                                    const_.type_ \in {"I8", "I16", "I32", "I64"},
                                    enumType)

\* resolveEnumItemValue: the value, or the code of the error (reported on
\* the span of the name when it is E3016)
resolveEnumItemValue(c, name, enumType) ==
    resolveEnumItemValue_const(resolveConst(c, name), enumType)

compileEnum_resolved(e, item, r, at, m) ==
    IF r.panicked THEN [e EXCEPT !.c.panicked = TRUE]
    ELSE IF r.ok
    THEN [e EXCEPT !.valuesByName = mapSet(@, item.name, r.value),
                   !.c = IF r.value \in DOMAIN e.namesByValue
                         THEN compiler_err(@, 3023, <<at, 100 * m + 12>>) ELSE @,
                   !.namesByValue = mapSet(@, r.value, item.name),
                   !.items = Append(@, enumItemBuilder(item.name, r.value, FALSE))]
    ELSE [e EXCEPT !.c = compiler_err(@, r.code,
                                      IF r.code = 3016 THEN <<at, 100 * m + 12>>
                                      ELSE <<0, 0>>),
                   !.items = Append(@, enumItemBuilder(item.name, U64(0), FALSE))]

\* the case of compileEnum for an item whose value is a name
compileEnum_valueName(e, enumType, item, at, m) ==
    compileEnum_resolved(e, item, resolveEnumItemValue(e.c, item.value.name, enumType),
                         at, m)

compileEnum_item(e, enumType, item, at, m) ==
    IF item.value.kind = "IntLit"
    THEN compileEnum_intLit(compileEnum_name(e, item, at, m), enumType, item, at, m)
    ELSE IF item.value.kind = "ValueName"
    THEN compileEnum_valueName(compileEnum_name(e, item, at, m), enumType, item, at, m)
    ELSE compileEnum_enumRef(compileEnum_name(e, item, at, m), item)

RECURSIVE compileEnum_items(_, _, _, _, _)
compileEnum_items(e, enumType, items, at, m) ==
    IF m > Len(items) \/ e.c.panicked THEN e
    ELSE compileEnum_items(compileEnum_item(e, enumType, items[m], at, m),
                           enumType, items, at, m + 1)

\* the second loop of compileEnum, over pendingAliases
RECURSIVE compileEnum_pending(_, _)
compileEnum_pending(e, p) ==
    IF p > Len(e.pendingAliases) THEN e
    ELSE compileEnum_pending(
             IF e.pendingAliases[p].targetName \in DOMAIN e.valuesByName
             THEN [e EXCEPT !.items[e.pendingAliases[p].idx].value =
                                e.valuesByName[e.pendingAliases[p].targetName]]
             ELSE [e EXCEPT !.c = compiler_err(@, 196608, <<0, 0>>)],
             p + 1)

compileEnum_build(e, k) ==
    [e.c EXCEPT !.decls[k].enumValues = e.valuesByName,
                !.Enums = Append(@, [name |-> e.c.decls[k].node.name,
                                     type_ |-> e.c.decls[k].enumType,
                                     items |-> e.items, options |-> e.options])]

compileEnum_after(o, k) ==
    IF o.c.panicked THEN o.c
    ELSE compileEnum_build(
             compileEnum_pending(
                 compileEnum_items(newEnumCtx(o), o.c.decls[k].enumType,
                                   o.c.decls[k].node.items, o.c.decls[k].node.at, 1),
                 1),
             k)

compileEnum(c, k) ==
    compileEnum_after(
        compileDecorators(c, "ENUM", c.decls[k].node.decorators, c.decls[k].node.at, 0),
        k)

\* the tag 0 is taken for a tag
checkFieldTag_ZeroOk(tagLit) ==
    IF IntLit_GetUint16(tagLit)
    THEN [ok |-> TRUE, tag |-> tagLit.value[1]]
    ELSE [ok |-> FALSE, tag |-> 0]

\* checkFieldTag without the error it reports: ok, and the uint16 tag
checkFieldTag(tagLit) ==
    IF IntLit_GetUint16(tagLit) /\ tagLit.value[1] # 0
    THEN [ok |-> TRUE, tag |-> tagLit.value[1]]
    ELSE [ok |-> FALSE, tag |-> 0]

\* the maps of compileMessage and compileUnion next to the compiler, and
\* the fields added to the builder
newFieldsCtx(o) ==
    [c |-> o.c, options |-> optionsBuilder(o), fieldsByTag |-> {},
     fieldsByName |-> {}, fields |-> <<>>]

compileField_name(f, field, at, m) ==
    IF field.name \in f.fieldsByName
    THEN [f EXCEPT !.c = compiler_err(@, 3025, <<at, 100 * m + 10>>)]
    ELSE [f EXCEPT !.fieldsByName = @ \cup {field.name}]

compileField_tag(f, field, at, m) ==
    IF ~checkFieldTag(field.tag).ok
    THEN [f EXCEPT !.c = compiler_err(@, 3027, <<at, 100 * m + 11>>)]
    ELSE IF checkFieldTag(field.tag).tag \in f.fieldsByTag
    THEN [f EXCEPT !.c = compiler_err(@, 3026, <<at, 100 * m + 11>>)]
    ELSE [f EXCEPT !.fieldsByTag = @ \cup {checkFieldTag(field.tag).tag}]

compileField_resolved(f, o, field, r) ==
    [f EXCEPT !.c = IF r.err # 0 THEN compiler_err(r.c, r.err, r.span) ELSE r.c,
              !.fields = Append(@, [name |-> field.name,
                                    tag |-> checkFieldTag(field.tag).tag,
                                    type_ |-> r.type.type_,
                                    typeName |-> r.type.typeName,
                                    options |-> optionsBuilder(o)])]

compileField_type(f, o, field, at, m) ==
    compileField_resolved(
        f, o, field, resolveType(f.c, field.typeName, <<at, 100 * m + 13>>))

\* compileMessageField and compileUnionField after the field's options; the
\* modelled fields are no arrays
compileField_after(f, o, field, at, m) ==
    IF o.c.panicked THEN [f EXCEPT !.c = o.c]
    ELSE compileField_type(
             compileField_tag(
                 compileField_name([f EXCEPT !.c = o.c], field, at, m),
                 field, at, m),
             o, field, at, m)

compileMessageField(f, builtin, field, at, m) ==
    compileField_after(
        f, compileDecorators(f.c, builtin, field.decorators, at, 100 * m),
        field, at, m)

RECURSIVE compileFields(_, _, _, _, _)
compileFields(f, builtin, fields, at, m) ==
    IF m > Len(fields) \/ f.c.panicked THEN f
    ELSE compileFields(compileMessageField(f, builtin, fields[m], at, m),
                       builtin, fields, at, m + 1)

fieldsBuilder(f, node) ==
    [name |-> node.name, fields |-> f.fields, options |-> f.options]

compileMessage_fields(c, node) ==
    compileFields(newFieldsCtx(compileDecorators(c, "MESSAGE", node.decorators, node.at, 0)),
                  "MESSAGE_FIELD", node.items, node.at, 1)

compileMessage(c, node) ==
    [compileMessage_fields(c, node).c
     EXCEPT !.Messages = Append(@, fieldsBuilder(compileMessage_fields(c, node), node))]

compileUnion_fields(c, node) ==
    compileFields(newFieldsCtx(compileDecorators(c, "UNION", node.decorators, node.at, 0)),
                  "UNION_FIELD", node.items, node.at, 1)

compileUnion(c, node) ==
    [compileUnion_fields(c, node).c
     EXCEPT !.Unions = Append(@, fieldsBuilder(compileUnion_fields(c, node), node))]

\* the loops of compileDecls over c.decls
RECURSIVE compileDecls_consts(_, _, _)
compileDecls_consts(c, compilingEnumConsts, k) ==
    IF k > Len(c.decls) \/ c.panicked THEN c
    ELSE compileDecls_consts(
             IF c.decls[k].node.kind = "Const"
             THEN compileConst(c, k, compilingEnumConsts) ELSE c,
             compilingEnumConsts, k + 1)

RECURSIVE compileDecls_enums(_, _)
compileDecls_enums(c, k) ==
    IF k > Len(c.decls) \/ c.panicked THEN c
    ELSE compileDecls_enums(
             IF c.decls[k].node.kind = "Enum" THEN compileEnum(c, k) ELSE c, k + 1)

RECURSIVE compileDecls_rest(_, _)
compileDecls_rest(c, k) ==
    IF k > Len(c.decls) \/ c.panicked THEN c
    ELSE compileDecls_rest(
             CASE c.decls[k].node.kind = "Message" -> compileMessage(c, c.decls[k].node)
               [] c.decls[k].node.kind = "Union" -> compileUnion(c, c.decls[k].node)
               [] OTHER -> c,
             k + 1)

compileDecls(c) ==
    compileDecls_rest(
        compileDecls_consts(
            compileDecls_enums(compileDecls_consts(c, FALSE, 1), 1),
            TRUE, 1),
        1)

----------------------------------------------------------------------------
(* Schema (compiler.go, compileSchema and the result of Compile)            *)

compileSchema_namespace(c, namespace) ==
    IF invalidNamespace(namespace) THEN compiler_err(c, 3000, <<0, 1>>) ELSE c

\* compileSchema up to the call of compileImports; the modelled sources
\* have no schema options, so compileSchemaOptions does nothing
compileSchema(c, src) ==
    compileDecls(
        compileExports(
            registerDecls(
                registerImports(compileSchema_namespace(c, src.namespace),
                                src.imports, 1),
                src.decls),
            src.exports, Len(src.imports), 1))

noSchema ==
    [emitted |-> FALSE, Namespace |-> <<>>, Imports |-> <<>>, Exports |-> <<>>,
     Decls |-> <<>>, Consts |-> <<>>, Enums |-> <<>>, Messages |-> <<>>,
     Unions |-> <<>>]

\* the CompileResult of CompileOptions.Compile, or the panic that ends it
CompileResult(c, src) ==
    IF c.panicked
    THEN [panicked |-> TRUE, schema |-> noSchema, Errors |-> <<>>, Warnings |-> <<>>]
    ELSE IF Len(c.errors) > 0
    THEN [panicked |-> FALSE, schema |-> noSchema, Errors |-> c.errors,
          Warnings |-> c.warnings]
    ELSE [panicked |-> FALSE,
          schema |-> [emitted |-> TRUE, Namespace |-> src.namespace,
                      Imports |-> c.Imports, Exports |-> c.Exports,
                      Decls |-> c.Decls, Consts |-> c.Consts, Enums |-> c.Enums,
                      Messages |-> c.Messages, Unions |-> c.Unions],
          Errors |-> <<>>, Warnings |-> c.warnings]

----------------------------------------------------------------------------
(* Compile scenario: a caller merges dependency schemas into a SchemaSet,  *)
(* then compiles one parsed source with it, more than once.  The           *)
(* SchemaSet outlives the calls; a caller without dependencies passes no   *)
(* SchemaSet.                                                              *)

MaxSchemas == 2
MaxImports == 2
MaxExports == 1
MaxCompiles == 2

\* The schemas the caller has: namespace "a" declaring struct N {};
\* namespace "a" importing E of namespace "c" and declaring const N : E and
\* struct M {}; namespace "b" declaring struct N {}.  The value of a
\* declaration is the view of it: the place of its bytes (views are equal
\* when they are the same bytes) and the TypeName read through it, which is
\* empty for a declaration without one.
DepSchemas ==
    {[namespace |-> <<97>>,
      decls |-> <<[name |-> <<78>>, type_ |-> "STRUCT",
                   value |-> [at |-> "a1.N", typeName |-> <<>>]]>>],
     [namespace |-> <<97>>,
      decls |-> <<[name |-> <<78>>, type_ |-> "CONST",
                   value |-> [at |-> "a2.N", typeName |-> <<99, 31, 69>>]],
                  [name |-> <<77>>, type_ |-> "STRUCT",
                   value |-> [at |-> "a2.M", typeName |-> <<>>]]>>],
     [namespace |-> <<98>>,
      decls |-> <<[name |-> <<78>>, type_ |-> "STRUCT",
                   value |-> [at |-> "b1.N", typeName |-> <<>>]]>>]}

\* import "a" as x; import "a" {}; import "a" {N}; import "a" {N M};
\* import "b" as x; import "b" {N}; the same two of a codegen-options
\* namespace; import "" {}
ImportForms ==
    {importNode(<<97>>, <<120>>, <<>>),
     importNode(<<97>>, <<>>, <<>>),
     importNode(<<97>>, <<>>, <<<<78>>>>),
     importNode(<<97>>, <<>>, <<<<78>>, <<77>>>>),
     importNode(<<98>>, <<120>>, <<>>),
     importNode(<<98>>, <<>>, <<<<78>>>>),
     importNode(<<105, 100, 111, 108, 47, 99, 111, 100, 101, 103, 101, 110, 45, 111, 112, 116, 105, 111, 110, 115, 47, 103, 111>>, <<120>>, <<>>),
     importNode(<<105, 100, 111, 108, 47, 99, 111, 100, 101, 103, 101, 110, 45, 111, 112, 116, 105, 111, 110, 115, 47, 103, 111>>, <<>>, <<<<78>>>>),
     importNode(<<>>, <<>>, <<>>)}

\* export {}; export {N}; export {x.N}; export {N N}; export {M};
\* export N as N; export x.M as N
ExportForms ==
    {exportNode(<<>>, <<>>),
     exportNode(<<>>, <<exportName(<<>>, <<78>>)>>),
     exportNode(<<>>, <<exportName(<<120>>, <<78>>)>>),
     exportNode(<<>>, <<exportName(<<>>, <<78>>), exportName(<<>>, <<78>>)>>),
     exportNode(<<>>, <<exportName(<<>>, <<77>>)>>),
     exportNode(<<78>>, <<exportName(<<>>, <<78>>)>>),
     exportNode(<<78>>, <<exportName(<<120>>, <<77>>)>>)}

\* the sequences that list every element of S once
Orders(S) ==
    {f \in [1..Cardinality(S) -> S] :
        \A a, b \in 1..Cardinality(S) : a # b => f[a] # f[b]}

InitCompile ==
    /\ phase = "compile"
    /\ buf = <<>>
    /\ origin = <<>>
    /\ accepted = "none"
    /\ rd = NoRead
    /\ bld = NoBuilder
    /\ lex = Idle
    /\ prs = Idle
    /\ \E given \in BOOLEAN :
       \E S \in SUBSET DepSchemas :
       \E schemas \in Orders(S) :
       \E ni \in 0..MaxImports : \E imports \in [1..ni -> ImportForms] :
       \E ne \in 0..MaxExports : \E exports \in [1..ne -> ExportForms] :
          /\ Cardinality(S) <= MaxSchemas
          /\ ~given => S = {}
          /\ cmp = [schemas |-> schemas, given |-> given,
                    deps |-> IF given THEN Merge(schemas) ELSE emptyMap,
                    src |-> [namespace |-> <<115>>, imports |-> imports,
                             exports |-> exports, decls |-> <<>>],
                    results |-> <<>>]

Compile_returned(c, given) ==
    [cmp EXCEPT !.results = Append(@, CompileResult(c, cmp.src)),
                !.deps = IF given THEN c.deps ELSE @]

\* compiler.Compile(src, WithDependencies(deps)), or compiler.Compile(src)
\* when no SchemaSet is given
Compile ==
    /\ phase = "compile"
    /\ Len(cmp.results) < MaxCompiles
    /\ \E order \in Orders(compileImports_unused(
                            compileSchema(newCompiler(cmp.deps, cmp.given), cmp.src))) :
          cmp' = Compile_returned(
                     compileImports(
                         compileSchema(newCompiler(cmp.deps, cmp.given), cmp.src),
                         order),
                     cmp.given)
    /\ UNCHANGED <<phase, buf, origin, accepted, rd, bld, lex, prs>>

\* the caller merges the same schemas again and uses the new SchemaSet
MergeDeps ==
    /\ phase = "compile"
    /\ cmp.given
    /\ cmp' = [cmp EXCEPT !.deps = Merge(cmp.schemas)]
    /\ UNCHANGED <<phase, buf, origin, accepted, rd, bld, lex, prs>>

NextCompile == Compile \/ MergeDeps

SpecCompile == InitCompile /\ [][NextCompile]_vars

----------------------------------------------------------------------------
(* Claims about Compile and its dependencies                                *)

\* C9: Compile is deterministic: two calls on the same parsed source, with
\* the same SchemaSet (the second call reusing the value the first was
\* given), return the same result: the same schema, the same errors and the
\* same warnings in the same order.
C9_CompileDeterministic ==
    (phase = "compile" /\ Len(cmp.results) = 2) =>
        cmp.results[1] = cmp.results[2]

\* import "a" { N } was compiled twice with one SchemaSet that lacked the
\* namespace: the first call reported E3001, the second emitted a schema
C9_SecondCompileDiffers ==
    /\ phase = "compile"
    /\ cmp.given
    /\ cmp.schemas = <<>>
    /\ cmp.src.imports = <<importNode(<<97>>, <<>>, <<<<78>>>>)>>
    /\ cmp.src.exports = <<>>
    /\ Len(cmp.results) = 2
    /\ cmp.results[1].Errors = <<[code |-> 3001, span |-> <<1, 1>>]>>
    /\ cmp.results[2].schema.emitted
    /\ cmp.results[2].Warnings = <<[code |-> 4001, span |-> <<1, 2>>]>>

\* C10: the SchemaSet given to Compile is read-only: after any number of
\* calls it holds exactly the namespaces and names Merge put into it.
C10_DepsReadOnly ==
    (phase = "compile" /\ cmp.given) => cmp.deps = Merge(cmp.schemas)

\* after one Compile of import "a" { N } the SchemaSet, merged from no
\* schema, has the namespace "a" and in it the name N
C10_NamespaceAdded ==
    /\ phase = "compile"
    /\ cmp.given
    /\ cmp.schemas = <<>>
    /\ cmp.src.imports = <<importNode(<<97>>, <<>>, <<<<78>>>>)>>
    /\ Len(cmp.results) = 1
    /\ DOMAIN cmp.deps = {<<97>>}
    /\ DOMAIN cmp.deps[<<97>>] = {<<78>>}

\* C11: every call of Compile returns a result, and the result carries a
\* schema exactly when no error was reported; warnings come with either.
C11_SchemaIffNoError ==
    phase = "compile" =>
        \A k \in 1..Len(cmp.results) :
            /\ ~cmp.results[k].panicked
            /\ cmp.results[k].schema.emitted <=> (cmp.results[k].Errors = <<>>)

\* import "a" { N M } with a SchemaSet whose namespace "a" declares only N,
\* followed by export { M }: the call ended in the panic of
\* registerExportedDecl and returned nothing
C11_CompilePanicked ==
    /\ phase = "compile"
    /\ cmp.given
    /\ Len(cmp.schemas) = 1
    /\ cmp.schemas[1].namespace = <<97>>
    /\ Len(cmp.schemas[1].decls) = 1
    /\ cmp.schemas[1].decls[1].type_ = "STRUCT"
    /\ cmp.src.imports = <<importNode(<<97>>, <<>>, <<<<78>>, <<77>>>>)>>
    /\ cmp.src.exports = <<exportNode(<<>>, <<exportName(<<>>, <<77>>)>>)>>
    /\ Len(cmp.results) = 1
    /\ cmp.results[1].panicked

\* Span.Start() compared: -1, 0 or 1 as span a starts before, with or after
\* span b
compareStart(a, b) ==
    IF a[1] # b[1] THEN (IF a[1] < b[1] THEN 0 - 1 ELSE 1)
    ELSE IF a[2] # b[2] THEN (IF a[2] < b[2] THEN 0 - 1 ELSE 1)
    ELSE 0

\* the order in which LoadExpectedErrors sorts the expected errors: by span
\* start, then by code
expectedOrder(a, b) ==
    \/ compareStart(a.span, b.span) < 0
    \/ compareStart(a.span, b.span) = 0 /\ a.code <= b.code

\* C12: the Errors of every result of Compile are sorted by ascending span
\* start and, for equal starts, by ascending error code.
C12_ErrorsInSourceOrder ==
    phase = "compile" =>
        \A k \in 1..Len(cmp.results) :
            \A p \in 1..Len(cmp.results[k].Errors) - 1 :
                expectedOrder(cmp.results[k].Errors[p], cmp.results[k].Errors[p + 1])

\* import "a" as x; import "b" as x with no schema of namespace "b": E3001
\* on the namespace literal is returned before E3002 on the import node
C12_LaterSpanFirst ==
    /\ phase = "compile"
    /\ Len(cmp.results) = 1
    /\ cmp.src.imports = <<importNode(<<97>>, <<120>>, <<>>), importNode(<<98>>, <<120>>, <<>>)>>
    /\ cmp.src.exports = <<>>
    /\ cmp.results[1].Errors = <<[code |-> 3001, span |-> <<2, 1>>],
                                 [code |-> 3002, span |-> <<2, 0>>]>>

----------------------------------------------------------------------------
(* Claims about integer literals in a parsed source                        *)

\* an underscore with a digit on either side
underscoreBetweenDigits(s, i) ==
    /\ s[i] = 95
    /\ i > 1 /\ i < Len(s)
    /\ isDigit(s[i - 1]) /\ isDigit(s[i + 1])

\* the source with the underscores between digits removed
RECURSIVE withoutUnderscores(_, _)
withoutUnderscores(s, i) ==
    IF i > Len(s) THEN <<>>
    ELSE (IF underscoreBetweenDigits(s, i) THEN <<>> ELSE <<s[i]>>)
             \o withoutUnderscores(s, i + 1)

\* C18: underscores are allowed between the digits of an integer literal: a
\* source that parses without its underscores between digits parses with
\* them too.
C18_UnderscoresAllowed ==
    (/\ phase = "parse"
     /\ prs.st = "parsed"
     /\ prs.err # Panicked
     /\ ParseSchema(withoutUnderscores(prs.input, 1)).err = 0)
        => prs.err = 0

\* namespace"x"const a:u16=1_0 was parsed: the lexer made one INT_LIT token
\* of 1_0 and newIntLit failed on it
C18_UnderscoreRejected ==
    /\ phase = "parse"
    /\ prs.st = "parsed"
    /\ prs.input = <<110, 97, 109, 101, 115, 112, 97, 99, 101, 34, 120, 34, 99, 111, 110, 115, 116, 32, 97, 58, 117, 49, 54, 61, 49, 95, 48>>
    /\ prs.lexErr = 0
    /\ prs.err = 2022

----------------------------------------------------------------------------
(* Claims about the namespaces a compiled schema refers to                  *)

\* the namespace a TypeName names: the bytes before the separator 0x1F, or
\* the empty string (the schema's own namespace) when it has none
typeNamespace(typeName) ==
    IF \E i \in 1..Len(typeName) : typeName[i] = 31
    THEN SubSeq(typeName, 1,
                (CHOOSE i \in 1..Len(typeName) :
                     typeName[i] = 31 /\ \A j \in 1..(i - 1) : typeName[j] # 31) - 1)
    ELSE <<>>

importedNamespaces(schema) ==
    {schema.Imports[i].namespace : i \in 1..Len(schema.Imports)}

\* C14: in every schema Compile emits, the type reference of every
\* declaration, re-exported ones included, names the schema's own namespace
\* or a namespace of the schema's imports table.
C14_NamespacePurity ==
    phase = "compile" =>
        \A k \in 1..Len(cmp.results) :
            cmp.results[k].schema.emitted =>
                \A d \in 1..Len(cmp.results[k].schema.Decls) :
                    \/ typeNamespace(cmp.results[k].schema.Decls[d].typeName) = <<>>
                    \/ typeNamespace(cmp.results[k].schema.Decls[d].typeName)
                           \in importedNamespaces(cmp.results[k].schema)

\* import "a" { N }; export { N } with const N : c.E of namespace "a": the
\* emitted schema has the clone of N, typed by E of "c", and imports only "a"
C14_ForeignNamespaceCloned ==
    /\ phase = "compile"
    /\ Len(cmp.results) = 1
    /\ cmp.results[1].schema.emitted
    /\ cmp.results[1].schema.Imports = <<[namespace |-> <<97>>, names |-> <<<<78>>>>]>>
    /\ cmp.results[1].schema.Decls =
           <<[type_ |-> "CONST", name |-> <<78>>, typeName |-> <<99, 31, 69>>]>>

----------------------------------------------------------------------------
(* package idol: Len, Get and Collect of the array views (idol_array.go).  *)
(* A view is its buffer; Get returns the value and the ok flag, or panics  *)
(* when it slices outside the buffer.                                      *)

found(v) == [st |-> "ok", val |-> v, ok |-> TRUE]

notFound(zero) == [st |-> "ok", val |-> zero, ok |-> FALSE]

BoolArray_Len(a) == Len(a)

BoolArray_Get(a, idx) ==
    IF idx >= BoolArray_Len(a) THEN notFound(FALSE)
    ELSE found(a[idx + 1] # 0)

BoolArray_Collect(a) == Ok([ii \in 1..Len(a) |-> a[ii] # 0])

Uint8Array_Len(a) == Len(a)

Uint8Array_Get(a, idx) ==
    IF idx >= Uint8Array_Len(a) THEN notFound(0)
    ELSE found(a[idx + 1])

Uint8Array_Collect(a) == Ok(a)

Uint16Array_Len(a) == Len(a) \div 2

Uint16Array_Get(a, idx) ==
    IF idx > Uint16Array_Len(a) THEN notFound(0)
    ELSE IF idx * 2 + 2 > Len(a) THEN Panic
    ELSE found(leUint16(Slice(a, idx * 2, idx * 2 + 2)))

Uint16Array_Collect(a) ==
    Ok([ii \in 1..(Len(a) \div 2) |-> leUint16(Slice(a, (ii - 1) * 2, (ii - 1) * 2 + 2))])

Uint64Array_Len(a) == Len(a) \div 8

Uint64Array_Get(a, idx) ==
    IF idx > Uint64Array_Len(a) THEN notFound(<<Wide(0), Wide(0)>>)
    ELSE IF idx * 8 + 8 > Len(a) THEN Panic
    ELSE found(leUint64(Slice(a, idx * 8, idx * 8 + 8)))

Uint64Array_Collect(a) ==
    Ok([ii \in 1..(Len(a) \div 8) |-> leUint64(Slice(a, (ii - 1) * 8, (ii - 1) * 8 + 8))])

\* dynArray.len; the arrays here are far shorter than 2^16 elements
dynArray_len(a) == IF Len(a) = 0 THEN 0 ELSE WInt(leUint32(Slice(a, 0, 4)))

\* the loop of dynArray.get over the sizes before idx: the value offset
RECURSIVE dynArray_get_valueOff(_, _, _, _)
dynArray_get_valueOff(a, idx, ii, valueOff) ==
    IF ii >= idx THEN valueOff
    ELSE dynArray_get_valueOff(
             a, idx, ii + 1,
             valueOff + WInt(leUint32(Slice(a, 4 + 4 * ii, 4 + 4 * ii + 4))))

dynArray_get_start(a, align) ==
    4 + dynArray_len(a) * 4
      + (IF align /\ dynArray_len(a) % 2 = 0 THEN 4 ELSE 0)

dynArray_get_size(a, idx) == WInt(leUint32(Slice(a, 4 + 4 * idx, 4 + 4 * idx + 4)))

dynArray_get(a, align, idx) ==
    IF idx >= dynArray_len(a) THEN notFound(<<>>)
    ELSE IF 4 + 4 * idx + 4 > Len(a) THEN Panic
    ELSE IF dynArray_get_size(a, idx) = 0 THEN found(<<>>)
    ELSE IF dynArray_get_valueOff(a, idx, 0, dynArray_get_start(a, align))
              + dynArray_get_size(a, idx) > Len(a)
    THEN Panic
    ELSE found(Slice(a, dynArray_get_valueOff(a, idx, 0, dynArray_get_start(a, align)),
                     dynArray_get_valueOff(a, idx, 0, dynArray_get_start(a, align))
                         + dynArray_get_size(a, idx)))

TextArray_Len(a) == dynArray_len(a)

TextArray_Get_text(r) ==
    IF r.st # "ok" THEN r
    ELSE IF ~r.ok \/ Len(r.val) = 0 THEN [r EXCEPT !.val = <<>>]
    ELSE [r EXCEPT !.val = SubSeq(r.val, 1, Len(r.val) - 1)]

TextArray_Get(a, idx) == TextArray_Get_text(dynArray_get(a, FALSE, idx))

----------------------------------------------------------------------------
(* Array scenario: a view is made over a buffer that holds up to MaxElems  *)
(* elements of its type, then Get is called with an index and Collect is   *)
(* called.                                                                 *)

MaxElems == 2
MaxIdx == 3

ArrayKinds == {"Bool", "Uint8", "Uint16", "Uint64", "Text"}

\* the encoded elements arrays are made of
ArrayElems(kind) ==
    IF kind \in {"Bool", "Uint8"} THEN {<<0>>, <<1>>, <<255>>}
    ELSE IF kind = "Uint16" THEN {<<1, 2>>, <<0, 128>>}
    ELSE IF kind = "Uint64" THEN {<<1, 2, 3, 4, 5, 6, 7, 8>>, <<0, 0, 0, 0, 0, 0, 0, 128>>}
    ELSE Texts

arrayBuffer(kind, elems) ==
    IF kind = "Text" THEN (IF Len(elems) = 0 THEN <<>> ELSE textArrayLayout(elems))
    ELSE Concat(elems)

Array_Len(kind, a) ==
    IF kind = "Bool" THEN BoolArray_Len(a)
    ELSE IF kind = "Uint8" THEN Uint8Array_Len(a)
    ELSE IF kind = "Uint16" THEN Uint16Array_Len(a)
    ELSE IF kind = "Uint64" THEN Uint64Array_Len(a)
    ELSE TextArray_Len(a)

Array_Get(kind, a, idx) ==
    IF kind = "Bool" THEN BoolArray_Get(a, idx)
    ELSE IF kind = "Uint8" THEN Uint8Array_Get(a, idx)
    ELSE IF kind = "Uint16" THEN Uint16Array_Get(a, idx)
    ELSE IF kind = "Uint64" THEN Uint64Array_Get(a, idx)
    ELSE TextArray_Get(a, idx)

Array_Collect(kind, a) ==
    IF kind = "Bool" THEN BoolArray_Collect(a)
    ELSE IF kind = "Uint8" THEN Uint8Array_Collect(a)
    ELSE IF kind = "Uint16" THEN Uint16Array_Collect(a)
    ELSE IF kind = "Uint64" THEN Uint64Array_Collect(a)
    ELSE TextArrayCollect(a)

InitArray ==
    /\ phase = "array"
    /\ \E kind \in ArrayKinds : \E n \in 0..MaxElems :
       \E elems \in [1..n -> ArrayElems(kind)] :
          /\ buf = arrayBuffer(kind, elems)
          /\ origin = [kind |-> kind, src |-> elems, bytes |-> buf]
    /\ accepted = "none"
    /\ rd = NoRead
    /\ bld = NoBuilder
    /\ lex = Idle
    /\ prs = Idle
    /\ cmp = Idle

\* array.Get(idx)
ArrayGet ==
    /\ phase = "array"
    /\ \E idx \in 0..MaxIdx :
          rd' = [lib |-> "idol", tag |-> idx, acc |-> "Get",
                 out |-> Array_Get(origin.kind, buf, idx), all |-> <<>>]
    /\ UNCHANGED <<phase, buf, origin, accepted, bld, lex, prs, cmp>>

\* array.Collect()
ArrayCollect ==
    /\ phase = "array"
    /\ rd' = [lib |-> "idol", tag |-> 0, acc |-> "Collect",
              out |-> Array_Collect(origin.kind, buf), all |-> <<>>]
    /\ UNCHANGED <<phase, buf, origin, accepted, bld, lex, prs, cmp>>

NextArray == ArrayGet \/ ArrayCollect

SpecArray == InitArray /\ [][NextArray]_vars

\* the value of an encoded element, and the zero value of the type
elementValue(kind, e) ==
    IF kind = "Bool" THEN e[1] # 0
    ELSE IF kind = "Uint8" THEN e[1]
    ELSE IF kind = "Uint16" THEN e[1] + 256 * e[2]
    ELSE IF kind = "Uint64"
    THEN <<[hi |-> e[3] + 256 * e[4], lo |-> e[1] + 256 * e[2]],
           [hi |-> e[7] + 256 * e[8], lo |-> e[5] + 256 * e[6]]>>
    ELSE e

zeroValue(kind) ==
    IF kind = "Bool" THEN FALSE
    ELSE IF kind \in {"Uint8", "Uint16"} THEN 0
    ELSE IF kind = "Uint64" THEN <<Wide(0), Wide(0)>>
    ELSE <<>>

\* C19: Get(idx) returns element idx and true for every idx < Len(), the
\* zero value and false for every idx >= Len(), and never indexes outside
\* the buffer; Collect is the sequence of the elements.
C19_GetWithinBounds ==
    phase = "array" =>
        /\ rd.acc = "Get" =>
               rd.out = IF rd.tag < Len(origin.src)
                        THEN found(elementValue(origin.kind, origin.src[rd.tag + 1]))
                        ELSE notFound(zeroValue(origin.kind))
        /\ rd.acc = "Collect" =>
               rd.out = Ok([i \in 1..Len(origin.src) |->
                               elementValue(origin.kind, origin.src[i])])

\* Get(2) on a Uint16Array of two elements sliced buf[4:6] of a 4-byte buffer
C19_GetAtLenPanics ==
    /\ phase = "array"
    /\ origin.kind = "Uint16"
    /\ Len(origin.src) = 2
    /\ Array_Len(origin.kind, buf) = 2
    /\ rd.acc = "Get"
    /\ rd.tag = 2
    /\ rd.out.st = "panic"

----------------------------------------------------------------------------
(* Declarations scenario: a caller without dependencies compiles a source  *)
(* that declares constants, enums, messages and unions.  The source is     *)
(* one constant of an integer type, or up to MaxDecls constants and enums, *)
(* or one message or union of up to MaxFields fields whose first field is  *)
(* decorated.                                                              *)

MaxDecls == 3
MaxFields == 2

IntTypeNames ==
    {<<117, 56>>, <<105, 56>>, <<117, 49, 54>>, <<105, 49, 54>>, <<117, 51, 50>>, <<105, 51, 50>>,
     <<117, 54, 52>>, <<105, 54, 52>>}

ConstLiterals ==
    {<<48>>, <<49>>, <<45, 48>>, <<45, 49>>, <<49, 50, 55>>, <<49, 50, 56>>,
     <<45, 49, 50, 56>>, <<45, 49, 50, 57>>, <<50, 53, 53>>, <<50, 53, 54>>, <<50, 53, 55>>,
     <<48, 120, 70, 70, 70, 70>>, <<54, 53, 53, 51, 54>>, <<45, 51, 50, 55, 54, 57>>, <<52, 50, 57, 52, 57, 54, 55, 50, 57, 53>>,
     <<52, 50, 57, 52, 57, 54, 55, 50, 57, 54>>, <<45, 50, 49, 52, 55, 52, 56, 51, 54, 52, 56>>, <<57, 50, 50, 51, 51, 55, 50, 48, 51, 54, 56, 53, 52, 55, 55, 53, 56, 48, 55>>,
     <<57, 50, 50, 51, 51, 55, 50, 48, 51, 54, 56, 53, 52, 55, 55, 53, 56, 48, 56>>, <<45, 57, 50, 50, 51, 51, 55, 50, 48, 51, 54, 56, 53, 52, 55, 55, 53, 56, 48, 56>>,
     <<49, 56, 52, 52, 54, 55, 52, 52, 48, 55, 51, 55, 48, 57, 53, 53, 49, 54, 49, 53>>}

\* const K : <type> = <literal>
IntConst(typeName, raw) == Const(1, <<75>>, typeName, IntLit(raw), <<>>)

\* none, @{x=1} @{x=1}, @{x=1} @{x=2}
ConstDecorators ==
    {<<>>,
     <<Option(<<120>>, IntLit(<<49>>)), Option(<<120>>, IntLit(<<49>>))>>,
     <<Option(<<120>>, IntLit(<<49>>)), Option(<<120>>, IntLit(<<50>>))>>}

\* const A : E = .X,  const B : u8 = 1 with decorators,
\* enum E : u8 { X = 1 },  enum E : u8 { X = 1  Y = .X  Z = .Y },
\* enum E : u8 { Y = .X  X = 1 },  enum E : u8 { X = 1  Y = .W },
\* enum E : i8 { X = -1  Y = .X },  enum E : u8 { X = 1  X = 256  Z = 1 }
DeclForms(at) ==
    {Const(at, <<65>>, <<69>>, EnumRef(<<88>>), <<>>)}
    \cup {Const(at, <<66>>, <<117, 56>>, IntLit(<<49>>), d) : d \in ConstDecorators}
    \cup {Enum(at, <<69>>, <<117, 56>>, <<EnumItem(<<88>>, IntLit(<<49>>))>>, <<>>),
          Enum(at, <<69>>, <<117, 56>>,
               <<EnumItem(<<88>>, IntLit(<<49>>)), EnumItem(<<89>>, EnumRef(<<88>>)),
                 EnumItem(<<90>>, EnumRef(<<89>>))>>, <<>>),
          Enum(at, <<69>>, <<117, 56>>,
               <<EnumItem(<<89>>, EnumRef(<<88>>)), EnumItem(<<88>>, IntLit(<<49>>))>>,
               <<>>),
          Enum(at, <<69>>, <<117, 56>>,
               <<EnumItem(<<88>>, IntLit(<<49>>)), EnumItem(<<89>>, EnumRef(<<87>>))>>,
               <<>>),
          Enum(at, <<69>>, <<105, 56>>,
               <<EnumItem(<<88>>, IntLit(<<45, 49>>)), EnumItem(<<89>>, EnumRef(<<88>>))>>,
               <<>>),
          Enum(at, <<69>>, <<117, 56>>,
               <<EnumItem(<<88>>, IntLit(<<49>>)), EnumItem(<<88>>, IntLit(<<50, 53, 54>>)),
                 EnumItem(<<90>>, IntLit(<<49>>))>>, <<>>)}

TagLiterals ==
    {<<48>>, <<49>>, <<50>>, <<54, 53, 53, 51, 53>>, <<54, 53, 53, 51, 54>>, <<45, 49>>}

\* none, @{optional}, @{optional} @{optional}, @{optional} @{optional=.false},
\* @{optional=.true}, @{optional=1}, @{x=1} @{x=1}, @{x=1} @{x=2}, @{x},
\* @{optional=.false}, @{optional=.maybe}
FieldDecorators ==
    {<<>>,
     <<Option(<<111, 112, 116, 105, 111, 110, 97, 108>>, EnumRef(<<102, 97, 108, 115, 101>>))>>,
     <<Option(<<111, 112, 116, 105, 111, 110, 97, 108>>, EnumRef(<<109, 97, 121, 98, 101>>))>>,
     <<Option(<<111, 112, 116, 105, 111, 110, 97, 108>>, NoValue)>>,
     <<Option(<<111, 112, 116, 105, 111, 110, 97, 108>>, NoValue), Option(<<111, 112, 116, 105, 111, 110, 97, 108>>, NoValue)>>,
     <<Option(<<111, 112, 116, 105, 111, 110, 97, 108>>, NoValue),
       Option(<<111, 112, 116, 105, 111, 110, 97, 108>>, EnumRef(<<102, 97, 108, 115, 101>>))>>,
     <<Option(<<111, 112, 116, 105, 111, 110, 97, 108>>, EnumRef(<<116, 114, 117, 101>>))>>,
     <<Option(<<111, 112, 116, 105, 111, 110, 97, 108>>, IntLit(<<49>>))>>,
     <<Option(<<120>>, IntLit(<<49>>)), Option(<<120>>, IntLit(<<49>>))>>,
     <<Option(<<120>>, IntLit(<<49>>)), Option(<<120>>, IntLit(<<50>>))>>,
     <<Option(<<120>>, NoValue)>>}

\* field m of the modelled message: a, b, .. of type u8
FieldForm(m, tag, decorators) ==
    MessageField(<<96 + m>>, IntLit(tag), <<117, 56>>, decorators)

\* the declarations of the sources
ConstSources == {<<IntConst(t, raw)>> : t \in IntTypeNames, raw \in ConstLiterals}

\* const K : <type> = <literal> with enum E : <type> { X = K }, in either
\* order
ValueNameLiterals ==
    {<<49>>, <<45, 49>>, <<49, 50, 55>>, <<45, 49, 50, 56>>, <<50, 48, 48>>,
     <<45, 49, 50, 57>>, <<51, 48, 48>>}

EnumOfName(at, typeName) ==
    Enum(at, <<69>>, typeName, <<EnumItem(<<88>>, ValueName(<<75>>))>>, <<>>)

ValueNameSources ==
    UNION {{<<Const(1, <<75>>, t, IntLit(raw), <<>>), EnumOfName(2, et)>>,
            <<EnumOfName(1, et), Const(2, <<75>>, t, IntLit(raw), <<>>)>>} :
              t \in IntTypeNames, et \in IntTypeNames, raw \in ValueNameLiterals}

RECURSIVE DeclSeqs(_)
DeclSeqs(n) ==
    IF n = 0 THEN {<<>>}
    ELSE {Append(s, d) : s \in DeclSeqs(n - 1), d \in DeclForms(n)}

DeclSources == UNION {DeclSeqs(n) : n \in 0..MaxDecls}

FieldForms(n, tags, d) ==
    [m \in 1..n |-> FieldForm(m, tags[m], IF m = 1 THEN d ELSE <<>>)]

FieldSources ==
    UNION {UNION {{<<Message(1, <<77>>, FieldForms(n, tags, d))>>,
                   <<Union(1, <<85>>, FieldForms(n, tags, d))>>} :
                     tags \in [1..n -> TagLiterals], d \in FieldDecorators} :
              n \in 1..MaxFields}

\* Sources that use an unscoped type name: an optional import "a" { N },
\* an optional declaration of the name N or u8, and message M with one field
\* of type N, u8 or Q.  The caller has one or two of the schemas of
\* namespace "a".
TypeDepSchemas ==
    {<<d>> : d \in {x \in DepSchemas : x.namespace = <<97>>}}
    \cup {s \in Orders({x \in DepSchemas : x.namespace = <<97>>}) : TRUE}

TypeImports == {<<>>, <<importNode(<<97>>, <<>>, <<<<78>>>>)>>}

TypeLocals(at) ==
    {<<>>,
     <<Union(at, <<78>>, <<FieldForm(1, <<49>>, <<>>)>>)>>,
     <<Enum(at, <<78>>, <<117, 56>>, <<EnumItem(<<88>>, IntLit(<<49>>))>>, <<>>)>>,
     <<Enum(at, <<117, 56>>, <<117, 56>>, <<EnumItem(<<88>>, IntLit(<<49>>))>>, <<>>)>>}

TypeNames == {<<78>>, <<117, 56>>, <<81>>}

TypedField(at, typeName) ==
    Message(at, <<77>>, <<MessageField(<<97>>, IntLit(<<49>>), typeName, <<>>)>>)

InitDecls_plain ==
    \E decls \in ConstSources \cup DeclSources \cup FieldSources \cup ValueNameSources :
        cmp = [schemas |-> <<>>, given |-> FALSE, deps |-> emptyMap,
               src |-> [namespace |-> <<115>>, imports |-> <<>>,
                        exports |-> <<>>, decls |-> decls],
               results |-> <<>>]

InitDecls_typed ==
    \E schemas \in TypeDepSchemas : \E imports \in TypeImports :
    \E locals \in TypeLocals(Len(imports) + 1) : \E typeName \in TypeNames :
        cmp = [schemas |-> schemas, given |-> TRUE, deps |-> Merge(schemas),
               src |-> [namespace |-> <<115>>, imports |-> imports,
                        exports |-> <<>>,
                        decls |-> locals \o <<TypedField(Len(imports) + Len(locals) + 1,
                                                         typeName)>>],
               results |-> <<>>]

InitDecls ==
    /\ phase = "compile"
    /\ buf = <<>>
    /\ origin = <<>>
    /\ accepted = "none"
    /\ rd = NoRead
    /\ bld = NoBuilder
    /\ lex = Idle
    /\ prs = Idle
    /\ (InitDecls_plain \/ InitDecls_typed)

NextDecls == Compile

SpecDecls == InitDecls /\ [][NextDecls]_vars

----------------------------------------------------------------------------
(* Claims about the declarations of a compiled schema                      *)

\* the integer a literal denotes lies in the range of the type: a literal
\* with a minus sign denotes a negative integer unless its digits are zero
negativeLit(n) == n.raw[1] = 45 /\ n.value # U64(0)

litInRange(n, type_) ==
    IF type_ \in {"U8", "U16", "U32", "U64"}
    THEN ~negativeLit(n) /\ U64_le(n.value, U64_bytesMax(typeWidth(type_)))
    ELSE IF negativeLit(n) THEN U64_le(int64_min(typeWidth(type_)), n.value)
    ELSE U64_le(n.value, int64_max(typeWidth(type_)))

intConstSource ==
    /\ phase = "compile"
    /\ Len(cmp.src.decls) = 1
    /\ cmp.src.decls[1].kind = "Const"
    /\ cmp.src.decls[1].name = <<75>>

isConstNode(d) == d.kind = "Const"

isEnumNode(d) == d.kind = "Enum"

isMessageNode(d) == d.kind = "Message"

isUnionNode(d) == d.kind = "Union"

\* the names of a sequence of declarations or builders
namesOf(s) == [k \in 1..Len(s) |-> s[k].name]

\* C13: within each of the sequences consts, enums, messages and unions of
\* an emitted schema, the declarations compiled from the source appear in
\* the order in which the source writes them
C13_DeclarationOrder ==
    phase = "compile" =>
        \A k \in 1..Len(cmp.results) :
            cmp.results[k].schema.emitted =>
                /\ namesOf(cmp.results[k].schema.Consts)
                       = namesOf(SelectSeq(cmp.src.decls, isConstNode))
                /\ namesOf(cmp.results[k].schema.Enums)
                       = namesOf(SelectSeq(cmp.src.decls, isEnumNode))
                /\ namesOf(cmp.results[k].schema.Messages)
                       = namesOf(SelectSeq(cmp.src.decls, isMessageNode))
                /\ namesOf(cmp.results[k].schema.Unions)
                       = namesOf(SelectSeq(cmp.src.decls, isUnionNode))

\* enum E : u8 { X = 1 }, const A : E = .X, const B : u8 = 1 compiles to the
\* constants B, A
C13_EnumConstAfterLaterConst ==
    /\ phase = "compile"
    /\ Len(cmp.src.decls) = 3
    /\ namesOf(cmp.src.decls) = <<<<69>>, <<65>>, <<66>>>>
    /\ cmp.src.decls[2].typeName = <<69>>
    /\ cmp.src.decls[3].typeName = <<117, 56>>
    /\ Len(cmp.results) = 1
    /\ cmp.results[1].schema.emitted
    /\ namesOf(cmp.results[1].schema.Consts) = <<<<66>>, <<65>>>>

enumSource ==
    /\ phase = "compile"
    /\ Len(cmp.src.decls) = 1
    /\ cmp.src.decls[1].kind = "Enum"

itemNames(items) == {items[m].name : m \in 1..Len(items)}

\* every alias of the enum names an item of the enum
aliasTargetsDeclared(items) ==
    \A m \in 1..Len(items) :
        items[m].value.kind = "EnumRef" => items[m].value.name \in itemNames(items)

itemNamed(items, name) == CHOOSE m \in 1..Len(items) : items[m].name = name

\* the item an alias stands for: the item named name, or the one its alias
\* chain ends at, following at most depth aliases; the modelled enums have
\* no alias cycles
RECURSIVE targetItem(_, _, _)
targetItem(items, name, depth) ==
    IF depth = 0 \/ items[itemNamed(items, name)].value.kind = "IntLit"
    THEN itemNamed(items, name)
    ELSE targetItem(items, items[itemNamed(items, name)].value.name, depth - 1)

\* C17: an enum item written as .Other, Other being an item of the same
\* enum declared earlier or later, compiles to an item with isAlias = TRUE
\* carrying the value of its target; an unresolved alias target is
\* reported only for a target that names no item of the enum
C17_AliasesResolved ==
    enumSource =>
        \A k \in 1..Len(cmp.results) :
            /\ aliasTargetsDeclared(cmp.src.decls[1].items) =>
                   \A e \in 1..Len(cmp.results[k].Errors) :
                       cmp.results[k].Errors[e].code # 196608
            /\ cmp.results[k].schema.emitted =>
                   \A m \in 1..Len(cmp.src.decls[1].items) :
                       cmp.src.decls[1].items[m].value.kind = "EnumRef" =>
                           /\ cmp.results[k].schema.Enums[1].items[m].isAlias
                           /\ cmp.results[k].schema.Enums[1].items[m].value
                                  = cmp.results[k].schema.Enums[1].items[
                                        targetItem(cmp.src.decls[1].items,
                                                   cmp.src.decls[1].items[m].name,
                                                   Len(cmp.src.decls[1].items))].value

\* enum E : u8 { X = 1  Y = .X  Z = .Y }: the target Y of Z is an item of
\* the enum, and it is reported as not found
C17_AliasOfAliasNotFound ==
    /\ enumSource
    /\ namesOf(cmp.src.decls[1].items) = <<<<88>>, <<89>>, <<90>>>>
    /\ cmp.src.decls[1].items[2].value = EnumRef(<<88>>)
    /\ cmp.src.decls[1].items[3].value = EnumRef(<<89>>)
    /\ Len(cmp.results) = 1
    /\ ~cmp.results[1].schema.emitted
    /\ cmp.results[1].Errors = <<[code |-> 196608, span |-> <<0, 0>>]>>

fieldSource ==
    /\ phase = "compile"
    /\ Len(cmp.src.decls) = 1
    /\ cmp.src.decls[1].kind \in {"Message", "Union"}

\* the tag a literal denotes is 0 or above 65535
tagOutOfRange(n) ==
    n.value = U64(0) \/ (~negativeLit(n) /\ ~U64_le(n.value, U64(65535)))

\* the literal denotes a tag in [1, 65535]
tagInRange(n) == ~negativeLit(n) /\ ~tagOutOfRange(n)

\* the fields of one emitted message or union have tags in [1, 65535], no
\* two of them the same
tagsDistinctInRange(fields) ==
    /\ \A m \in 1..Len(fields) : fields[m].tag \in 1..65535
    /\ \A m, n \in 1..Len(fields) : m # n => fields[m].tag # fields[n].tag

reported(result, code, span) ==
    \E e \in 1..Len(result.Errors) :
        result.Errors[e] = [code |-> code, span |-> span]

optionSetTwice ==
    /\ fieldSource
    /\ Len(cmp.src.decls[1].items[1].decorators) = 2
    /\ cmp.src.decls[1].items[1].decorators[1].name
           = cmp.src.decls[1].items[1].decorators[2].name

\* C20: when one option name is set twice on one target, the second setting
\* yields warning W4010 if its value equals the first and error E3010 if it
\* differs, for every option, uninterpreted or built-in
C20_DuplicateOptions ==
    optionSetTwice =>
        \A k \in 1..Len(cmp.results) :
            ~cmp.results[k].panicked =>
                IF cmp.src.decls[1].items[1].decorators[1].value
                       = cmp.src.decls[1].items[1].decorators[2].value
                THEN \E w \in 1..Len(cmp.results[k].Warnings) :
                         cmp.results[k].Warnings[w]
                             = [code |-> 4010, span |-> optionSpan(1, 100, 2)]
                ELSE reported(cmp.results[k], 3010, optionSpan(1, 100, 2))

\* message M { @{optional} @{optional}  a @1 : u8 } compiles without a warning
C20_BuiltinSetTwiceSilently ==
    /\ optionSetTwice
    /\ cmp.src.decls[1].kind = "Message"
    /\ Len(cmp.src.decls[1].items) = 1
    /\ cmp.src.decls[1].items[1].tag.raw = <<49>>
    /\ cmp.src.decls[1].items[1].decorators
           = <<Option(<<111, 112, 116, 105, 111, 110, 97, 108>>, NoValue), Option(<<111, 112, 116, 105, 111, 110, 97, 108>>, NoValue)>>
    /\ Len(cmp.results) = 1
    /\ cmp.results[1].schema.emitted
    /\ cmp.results[1].schema.Messages[1].fields[1].options.optional
    /\ cmp.results[1].Warnings = <<>>
    /\ cmp.results[1].Errors = <<>>

\* the first field of the one message of the source carries the one
\* decorator @{optional} or @{optional=.Name}
optionalSetOnce ==
    /\ fieldSource
    /\ cmp.src.decls[1].kind = "Message"
    /\ Len(cmp.src.decls[1].items[1].decorators) = 1
    /\ cmp.src.decls[1].items[1].decorators[1].name = <<111, 112, 116, 105, 111, 110, 97, 108>>
    /\ cmp.src.decls[1].items[1].decorators[1].value.kind \in {"nil", "EnumRef"}

\* the value is absent, .true or .false
boolOptionValue(v) ==
    v.kind = "nil" \/ v.name \in {<<116, 114, 117, 101>>, <<102, 97, 108, 115, 101>>}

\* C21: the built-in message-field option optional compiles without an
\* error on its value to true when given .true or no value and to false
\* when given .false; E3017 is reported only for a value that is neither
C21_OptionalIsBool ==
    optionalSetOnce =>
        \A k \in 1..Len(cmp.results) :
            IF boolOptionValue(cmp.src.decls[1].items[1].decorators[1].value)
            THEN /\ \A e \in 1..Len(cmp.results[k].Errors) :
                        cmp.results[k].Errors[e].span # optionValueSpan(1, 100, 1)
                 /\ cmp.results[k].schema.emitted =>
                        cmp.results[k].schema.Messages[1].fields[1].options.optional
                            = (cmp.src.decls[1].items[1].decorators[1].value
                                   # EnumRef(<<102, 97, 108, 115, 101>>))
            ELSE reported(cmp.results[k], 3017, optionValueSpan(1, 100, 1))

\* message M { @{optional=.true}  a @1 : u8 }: E3017 on .true, no schema
C21_TrueReportedInvalid ==
    /\ optionalSetOnce
    /\ Len(cmp.src.decls[1].items) = 1
    /\ cmp.src.decls[1].items[1].tag.raw = <<49>>
    /\ cmp.src.decls[1].items[1].decorators[1].value = EnumRef(<<116, 114, 117, 101>>)
    /\ Len(cmp.results) = 1
    /\ ~cmp.results[1].schema.emitted
    /\ cmp.results[1].Errors = <<[code |-> 3017, span |-> <<1, 103>>]>>

\* the source uses an unscoped type name in the one field of message M
typedFieldSource ==
    /\ phase = "compile"
    /\ cmp.given
    /\ cmp.src.decls[Len(cmp.src.decls)].name = <<77>>

usedTypeName == cmp.src.decls[Len(cmp.src.decls)].items[1].typeName

\* the tables of the claim: the bare imported names, the local
\* declarations, the built-in types
inImportedNames(name) ==
    \E i \in 1..Len(cmp.src.imports) :
        \E j \in 1..Len(cmp.src.imports[i].names) : cmp.src.imports[i].names[j] = name

inLocalDecls(name) ==
    \E d \in 1..Len(cmp.src.decls) : cmp.src.decls[d].name = name

warned(result, code, span) ==
    \E w \in 1..Len(result.Warnings) :
        result.Warnings[w] = [code |-> code, span |-> span]

\* C22: an unscoped type name is looked up in the bare imported names, then
\* the local declarations, then the built-in types; the first table that
\* has the name supplies the type and has its entry recorded as used (an
\* imported name that resolves to a type is not warned about as unused), and
\* a name in none of them is reported as not found
C22_ImportsThenLocalsThenBuiltins ==
    typedFieldSource =>
        \A k \in 1..Len(cmp.results) :
            ~cmp.results[k].panicked =>
                /\ (/\ inImportedNames(usedTypeName)
                    /\ \A e \in 1..Len(cmp.results[k].Errors) :
                           cmp.results[k].Errors[e].code \notin {3005, 3006, 3007}) =>
                       ~warned(cmp.results[k], 4001, <<1, 2>>)
                /\ (/\ ~inImportedNames(usedTypeName)
                    /\ ~inLocalDecls(usedTypeName)
                    /\ usedTypeName \notin DOMAIN builtinTypes) =>
                       reported(cmp.results[k], 196608, <<0, 0>>)
                /\ cmp.results[k].schema.emitted =>
                       cmp.results[k].schema.Messages[1].fields[1].typeName
                           = IF inImportedNames(usedTypeName)
                             THEN <<97, 31>> \o usedTypeName
                             ELSE IF inLocalDecls(usedTypeName) THEN usedTypeName
                             ELSE <<>>

\* import "a" { N }, union N { a @1 : u8 }, message M { a @1 : N }: the field
\* takes the local N and the imported N is warned about as unused
C22_LocalBeforeImported ==
    /\ typedFieldSource
    /\ cmp.schemas = <<[namespace |-> <<97>>,
                        decls |-> <<[name |-> <<78>>, type_ |-> "STRUCT",
                                     value |-> [at |-> "a1.N", typeName |-> <<>>]]>>]>>
    /\ Len(cmp.src.imports) = 1
    /\ Len(cmp.src.decls) = 2
    /\ cmp.src.decls[1].kind = "Union"
    /\ cmp.src.decls[1].name = <<78>>
    /\ usedTypeName = <<78>>
    /\ Len(cmp.results) = 1
    /\ cmp.results[1].Errors = <<[code |-> 3013, span |-> <<2, 10>>]>>
    /\ cmp.results[1].Warnings = <<[code |-> 4001, span |-> <<1, 2>>]>>

----------------------------------------------------------------------------
(* Merge scenario: a caller merges the compiled schemas it has, again with *)
(* one more schema each time, and resolves names in the SchemaSet.         *)

MaxMerged == 3

\* The compiled schemas of the scenario: namespace "a" declaring struct N
\* with payload p1; the same with payload p2; namespace "a" declaring
\* message N with payload p1; namespace "a" declaring const N and struct M;
\* namespace "a" declaring const N and struct N; namespace "b" declaring
\* struct N with payload p1.
MergeForms ==
    {[namespace |-> <<97>>,
      decls |-> <<[name |-> <<78>>, type_ |-> "STRUCT",
                   value |-> [at |-> "p1", typeName |-> <<>>]]>>],
     [namespace |-> <<97>>,
      decls |-> <<[name |-> <<78>>, type_ |-> "STRUCT",
                   value |-> [at |-> "p2", typeName |-> <<>>]]>>],
     [namespace |-> <<97>>,
      decls |-> <<[name |-> <<78>>, type_ |-> "MESSAGE",
                   value |-> [at |-> "p1", typeName |-> <<>>]]>>],
     [namespace |-> <<97>>,
      decls |-> <<[name |-> <<78>>, type_ |-> "CONST",
                   value |-> [at |-> "p3", typeName |-> <<117, 56>>]],
                  [name |-> <<77>>, type_ |-> "STRUCT",
                   value |-> [at |-> "p4", typeName |-> <<>>]]>>],
     [namespace |-> <<97>>,
      decls |-> <<[name |-> <<78>>, type_ |-> "CONST",
                   value |-> [at |-> "p3", typeName |-> <<117, 56>>]],
                  [name |-> <<78>>, type_ |-> "STRUCT",
                   value |-> [at |-> "p1", typeName |-> <<>>]]>>],
     [namespace |-> <<98>>,
      decls |-> <<[name |-> <<78>>, type_ |-> "STRUCT",
                   value |-> [at |-> "p1", typeName |-> <<>>]]>>]}

MergeNamespaces == {<<97>>, <<98>>}
MergeNames == {<<78>>, <<77>>}

InitMerge ==
    /\ phase = "merge"
    /\ buf = <<>>
    /\ origin = <<>>
    /\ accepted = "none"
    /\ rd = NoRead
    /\ bld = NoBuilder
    /\ lex = Idle
    /\ prs = Idle
    /\ cmp = [schemas |-> <<>>, given |-> TRUE, deps |-> Merge(<<>>),
              src |-> <<>>, results |-> <<>>]

\* compiler.Merge(schemas) with one more schema than the last call
MergeMore ==
    /\ phase = "merge"
    /\ Len(cmp.schemas) < MaxMerged
    /\ \E schema \in MergeForms :
          cmp' = [cmp EXCEPT !.schemas = Append(@, schema),
                             !.deps = Merge(Append(cmp.schemas, schema)),
                             !.results = <<>>]
    /\ UNCHANGED <<phase, buf, origin, accepted, rd, bld, lex, prs>>

Resolve_returned(as, namespace, name, code) ==
    [cmp EXCEPT !.results = <<[as |-> as, namespace |-> namespace,
                               name |-> name, code |-> code]>>]

\* deps.resolveType(namespace, name, importSpan, useSpan)
ResolveType ==
    /\ phase = "merge"
    /\ \E namespace \in MergeNamespaces : \E name \in MergeNames :
          cmp' = Resolve_returned("type", namespace, name,
                     SchemaSet_resolveType(cmp.deps, namespace, name,
                                           <<1, 2>>, <<1, 11>>).code)
    /\ UNCHANGED <<phase, buf, origin, accepted, rd, bld, lex, prs>>

\* deps.resolveConst(namespace, name, importSpan, useSpan)
ResolveConst ==
    /\ phase = "merge"
    /\ \E namespace \in MergeNamespaces : \E name \in MergeNames :
          cmp' = Resolve_returned("const", namespace, name,
                     SchemaSet_resolveConst(cmp.deps, namespace, name).code)
    /\ UNCHANGED <<phase, buf, origin, accepted, rd, bld, lex, prs>>

\* deps.resolveExport(namespace, name, span)
ResolveExport ==
    /\ phase = "merge"
    /\ \E namespace \in MergeNamespaces : \E name \in MergeNames :
          cmp' = Resolve_returned("export", namespace, name,
                     SchemaSet_resolveExport(cmp.deps, namespace, name).code)
    /\ UNCHANGED <<phase, buf, origin, accepted, rd, bld, lex, prs>>

NextMerge == MergeMore \/ ResolveType \/ ResolveConst \/ ResolveExport

SpecMerge == InitMerge /\ [][NextMerge]_vars

----------------------------------------------------------------------------
(* Claims about Merge                                                       *)

\* the declarations the merged schemas contribute to a name: category and
\* payload
contributions(namespace, name) ==
    {[type_ |-> cmp.schemas[i].decls[j].type_, value |-> cmp.schemas[i].decls[j].value] :
        <<i, j>> \in {p \in (1..Len(cmp.schemas)) \X (1..2) :
                        /\ cmp.schemas[p[1]].namespace = namespace
                        /\ p[2] <= Len(cmp.schemas[p[1]].decls)
                        /\ cmp.schemas[p[1]].decls[p[2]].name = name}}

mergedEntry(namespace, name) == cmp.deps[namespace][name]

hasEntry(namespace, name) ==
    namespace \in DOMAIN cmp.deps /\ name \in DOMAIN cmp.deps[namespace]

entryUnified(namespace, name) ==
    /\ hasEntry(namespace, name)
    /\ ~mergedEntry(namespace, name).conflict
    /\ [type_ |-> mergedEntry(namespace, name).type_,
        value |-> mergedEntry(namespace, name).value] \in contributions(namespace, name)

entryConflict(namespace, name) ==
    hasEntry(namespace, name) /\ mergedEntry(namespace, name).conflict

\* C23: a name that the merged schemas of a namespace declare is unified
\* when all its declarations are of one category with the same payload, and
\* is marked conflict otherwise, however many schemas follow; resolving a
\* conflict entry as a type, a const or an export yields E3006
C23_MergeUnifiesOrConflicts ==
    phase = "merge" =>
        /\ \A namespace \in MergeNamespaces : \A name \in MergeNames :
              /\ Cardinality(contributions(namespace, name)) = 1
                    => entryUnified(namespace, name)
              /\ Cardinality(contributions(namespace, name)) > 1
                    => entryConflict(namespace, name)
        /\ \A i \in 1..Len(cmp.results) :
              entryConflict(cmp.results[i].namespace, cmp.results[i].name)
                  => cmp.results[i].code = 3006

\* struct N, then a struct N of another payload, then the first again: the
\* entry is still conflict and resolves to E3006
C23_ConflictStaysAndResolvesE3006 ==
    /\ phase = "merge"
    /\ Len(cmp.schemas) = 3
    /\ cmp.schemas[1] = cmp.schemas[3]
    /\ cmp.schemas[1] # cmp.schemas[2]
    /\ Cardinality(contributions(<<97>>, <<78>>)) = 2
    /\ entryConflict(<<97>>, <<78>>)
    /\ Len(cmp.results) = 1
    /\ cmp.results[1].namespace = <<97>>
    /\ cmp.results[1].name = <<78>>
    /\ cmp.results[1].code = 3006

\* C24: every call of Compile on a parsed source returns a CompileResult;
\* no call ends in a panic
C24_CompileNeverPanics ==
    (phase = "compile" /\ cmp.src.decls # <<>>) =>
        \A k \in 1..Len(cmp.results) : ~cmp.results[k].panicked

\* message M { @{x}  a @1 : u8 }: the option has no value, and compileOption
\* unparses the value of an option whose type it did not resolve
C24_ValuelessOptionPanics ==
    /\ fieldSource
    /\ cmp.src.decls[1].kind = "Message"
    /\ Len(cmp.src.decls[1].items) = 1
    /\ cmp.src.decls[1].items[1].tag.raw = <<49>>
    /\ cmp.src.decls[1].items[1].decorators = <<Option(<<120>>, NoValue)>>
    /\ Len(cmp.results) = 1
    /\ cmp.results[1].panicked

\* the source declares enum E with a first item X given by a literal in the
\* range of E's base type, and const A : E = .X, in either order; e is the
\* place of the enum and a the place of the const
enumConstAt(e, a) ==
    /\ phase = "compile"
    /\ Len(cmp.src.decls) = 2
    /\ cmp.src.decls[e].kind = "Enum"
    /\ cmp.src.decls[e].items[1].name = <<88>>
    /\ cmp.src.decls[e].items[1].value.kind = "IntLit"
    /\ litInRange(cmp.src.decls[e].items[1].value,
                  builtinTypes[cmp.src.decls[e].typeName])
    /\ \A m \in 2..Len(cmp.src.decls[e].items) :
          cmp.src.decls[e].items[m].name # <<88>>
    /\ cmp.src.decls[a].kind = "Const"
    /\ cmp.src.decls[a].typeName = cmp.src.decls[e].name
    /\ cmp.src.decls[a].value = EnumRef(<<88>>)

errorsAt(result, at) ==
    {e \in 1..Len(result.Errors) : result.Errors[e].span[1] = at}

enumConstCompiled(result, e, a) ==
    /\ errorsAt(result, a) = {}
    /\ result.schema.emitted =>
          result.schema.Consts[1].value
              = U64_bytes(cmp.src.decls[e].items[1].value.value,
                          typeWidth(builtinTypes[cmp.src.decls[e].typeName]))

\* C28: a const whose type is an enum of the same file and whose value is
\* .X compiles without an error to the value of item X in the width of the
\* enum's base type, for signed base types and negative items too
C28_EnumConstCompiles ==
    \A e, a \in 1..2 :
        enumConstAt(e, a) =>
            \A k \in 1..Len(cmp.results) : enumConstCompiled(cmp.results[k], e, a)

\* enum E : i8 { X = -1  Y = .X } and const A : E = .X: the const is reported
\* as out of range
C28_NegativeItemOutOfRange ==
    /\ enumConstAt(1, 2)
    /\ cmp.src.decls[1].typeName = <<105, 56>>
    /\ cmp.src.decls[1].items[1].value.raw = <<45, 49>>
    /\ Len(cmp.results) = 1
    /\ ~cmp.results[1].schema.emitted
    /\ cmp.results[1].Errors = <<[code |-> 3016, span |-> <<2, 12>>]>>
----------------------------------------------------------------------------
(* Repeated calls of Tokens.Next: a caller keeps calling Next on one Tokens *)
(* value, after an error and after EOF too.                                 *)

MaxCallRunes == 3
MaxCalls == 5

NoCall == [err |-> 0, token |-> [Kind |-> "none", Len |-> 0]]

InitLexCalls ==
    /\ phase = "lexcalls"
    /\ buf = <<>>
    /\ origin = <<>>
    /\ accepted = "none"
    /\ rd = NoRead
    /\ bld = NoBuilder
    /\ \E n \in 0..MaxCallRunes : \E f \in [1..n -> Runes] :
          lex = [input |-> Concat(f), t |-> NewTokens(Concat(f)),
                 before |-> NewTokens(Concat(f)), calls |-> 0, tokens |-> 0,
                 last |-> NoCall, prev |-> NoCall]
    /\ prs = Idle
    /\ cmp = Idle

CallNext_returned(res) ==
    [lex EXCEPT !.t = res.t, !.before = lex.t, !.calls = @ + 1,
                !.tokens = IF res.err = 0 /\ res.token.Kind # "EOF" THEN @ + 1 ELSE @,
                !.last = [err |-> res.err, token |-> res.token],
                !.prev = lex.last]

\* err := t.Next(&token)
CallNext ==
    /\ phase = "lexcalls"
    /\ lex.calls < MaxCalls
    /\ lex' = CallNext_returned(Tokens_Next(lex.t))
    /\ UNCHANGED <<phase, buf, origin, accepted, rd, bld, prs, cmp>>

NextLexCalls == CallNext

SpecLexCalls == InitLexCalls /\ [][NextLexCalls]_vars

\* the last call returned a token other than EOF
lastToken == lex.last.err = 0 /\ lex.last.token.Kind # "EOF"

\* C30: a call of Next that returns a token other than EOF consumes exactly
\* the token's length, which is at least one byte; a call that returns an
\* error consumes nothing and the next call returns the same error; on an
\* exhausted input every call returns EOF; so an input of n bytes yields an
\* error or EOF after at most n tokens
C30_LexerProgress ==
    (phase = "lexcalls" /\ lex.calls > 0) =>
        /\ lastToken =>
              /\ lex.last.token.Len >= 1
              /\ lex.last.token.Len <= Len(lex.before.src)
              /\ lex.t.src = SubSeq(lex.before.src, lex.last.token.Len + 1,
                                    Len(lex.before.src))
              /\ lex.t.offset = lex.before.offset + lex.last.token.Len
        /\ ~lastToken => lex.t = lex.before
        /\ lex.prev.err # 0 => lex.last = lex.prev
        /\ Len(lex.before.src) = 0 =>
              lex.last = [err |-> 0, token |-> [Kind |-> "EOF", Len |-> 0]]
        /\ lex.tokens <= Len(lex.input)
        /\ lex.calls > Len(lex.input) => ~lastToken

\* CR LF and '@' were read as two tokens, and the two calls after them
\* returned EOF
C30_TokensThenEOFTwice ==
    /\ phase = "lexcalls"
    /\ lex.input = <<13, 10, 64>>
    /\ lex.calls = 4
    /\ lex.tokens = 2
    /\ lex.prev.token.Kind = "EOF"
    /\ lex.last.token.Kind = "EOF"
    /\ lex.last.err = 0

----------------------------------------------------------------------------
(* Claims about the two validators                                          *)

\* the outcome of the other validator on the buffer as the caller made it
otherValidator ==
    IF phase = "idolbin" THEN NewMessageDecoder(origin.bytes).res
    ELSE NewMessage(origin.bytes)

\* C26: neither validator panics, and a buffer that one of NewMessage and
\* NewMessageDecoder accepts is accepted by the other
C26_ValidatorsAgree ==
    phase \in {"idolbin", "idol"} =>
        /\ accepted # "panic"
        /\ otherValidator # "panic"
        /\ accepted = "ok" <=> otherValidator = "ok"

\* a message whose one thunk is a scalar with one handle: NewMessage accepts
\* it and NewMessageDecoder panics
C26_HandleThunkPanics ==
    /\ phase = "idol"
    /\ origin.kind = "raw"
    /\ origin.bytes = header(Wide(16), 0, 1) \o thunkBytes(1, 32768, AllOnes)
    /\ accepted = "panic"
    /\ NewMessage(origin.bytes) = "ok"

\* C27: a buffer that NewMessageDecoder rejects holds the bytes it held
\* before the call
C27_RejectedBufferUnchanged ==
    (phase = "idol" /\ accepted = "err") => buf = origin.bytes

\* an indirect thunk of size 8 with no data after it: the thunk is rewritten
\* to the data offset before the size is found to run past the message
C27_RejectedBufferRewritten ==
    /\ phase = "idol"
    /\ origin.kind = "raw"
    /\ origin.bytes = header(Wide(16), 0, 1) \o thunkBytes(0, 49152, Wide(8))
    /\ accepted = "err"
    /\ buf = header(Wide(16), 0, 1) \o <<2, 0, 0, 192>> \o PutUint32(Wide(8))

----------------------------------------------------------------------------
(* Claims about message arrays                                              *)

\* field 1 of a message holding a message array has been read by one of the
\* two decoders
messageArrayRead ==
    /\ origin.kind = "messagearray"
    /\ Len(origin.src) > 0
    /\ rd.tag = 1
    /\ rd.acc \in {"GetMessageArray", "MessageArray"}

badElementSize(elem) == elem.size = 0 \/ elem.size % 8 # 0

\* C25: a message array is accepted only if every element has a size that
\* is a nonzero multiple of 8 and is a valid message; both
\* idolbin.GetMessageArray and MessageDecoder.MessageArray reject an array
\* with an element of size 0 or of a size that is not a multiple of 8 with
\* an error
C25_MessageArrayElements ==
    messageArrayRead =>
        /\ (\E i \in 1..Len(origin.src) : badElementSize(origin.src[i]))
              => rd.out.st = "err"
        /\ rd.out.st = "ok" =>
              \A i \in 1..Len(origin.src) :
                  /\ ~badElementSize(origin.src[i])
                  /\ NewMessage(origin.src[i].bytes) = "ok"

\* an array of one element of size 0 and one empty message is read by
\* MessageDecoder.MessageArray without an error
C25_ZeroSizeElementSkipped ==
    /\ messageArrayRead
    /\ rd.lib = "idol"
    /\ rd.acc = "MessageArray"
    /\ Len(origin.src) = 2
    /\ origin.src[1].size = 0
    /\ origin.src[2] = [size |-> 8, bytes |-> header(Wide(8), 0, 0)]
    /\ rd.out.st = "ok"

\* the source declares const K of an integer type with a literal in the
\* type's range, at place a, and enum E with the one item X = K, at place e
enumOfConstAt(e, a) ==
    /\ phase = "compile"
    /\ Len(cmp.src.decls) = 2
    /\ cmp.src.decls[e].kind = "Enum"
    /\ cmp.src.decls[e].items = <<EnumItem(<<88>>, ValueName(<<75>>))>>
    /\ cmp.src.decls[a].kind = "Const"
    /\ cmp.src.decls[a].name = <<75>>
    /\ litInRange(cmp.src.decls[a].value, builtinTypes[cmp.src.decls[a].typeName])

\* the item took the value v, as far as the bytes of the enum's base type
\* tell, and nothing was reported
enumItemAccepted(result, e, v) ==
    /\ result.Errors = <<>>
    /\ result.schema.emitted
    /\ U64_bytes(result.schema.Enums[1].items[1].value,
                 typeWidth(builtinTypes[cmp.src.decls[e].typeName]))
           = U64_bytes(v, typeWidth(builtinTypes[cmp.src.decls[e].typeName]))

enumItemRejected(result, e) ==
    /\ ~result.schema.emitted
    /\ result.Errors = <<[code |-> 3016, span |-> <<e, 112>>]>>

\* C29: an enum item defined by the name of a const takes the value of the
\* const, read in the const's own type, when that value lies in the range of
\* the enum's base type, and is reported as E3016 otherwise: a negative
\* const is rejected for an unsigned base type and accepted for a signed
\* base type whose range holds it
C29_EnumItemOfConst ==
    \A e, a \in 1..2 :
        enumOfConstAt(e, a) =>
            \A k \in 1..Len(cmp.results) :
                IF litInRange(cmp.src.decls[a].value,
                              builtinTypes[cmp.src.decls[e].typeName])
                THEN enumItemAccepted(cmp.results[k], e, cmp.src.decls[a].value.value)
                ELSE enumItemRejected(cmp.results[k], e)

\* const K : i8 = -1 and enum E : u8 { X = K }: the item is accepted with
\* the value 255
C29_NegativeConstInUnsignedEnum ==
    /\ enumOfConstAt(2, 1)
    /\ cmp.src.decls[1].typeName = <<105, 56>>
    /\ cmp.src.decls[1].value.raw = <<45, 49>>
    /\ cmp.src.decls[2].typeName = <<117, 56>>
    /\ Len(cmp.results) = 1
    /\ cmp.results[1].Errors = <<>>
    /\ cmp.results[1].schema.emitted
    /\ cmp.results[1].schema.Enums[1].items[1].value = U64(255)
====
